---------------------------- MODULE Spec2Model ----------------------------
(***************************************************************************)
(* A model of the read-only ISO-9660 / Rock Ridge filesystem driver        *)
(* (src/isofs.c, src/util.h, src/iso.h).                                   *)
(*                                                                         *)
(* The driver is a set of sequential routines over one immutable byte      *)
(* region.  Each routine is modelled as a small state machine whose        *)
(* actions are the iterations of its loops; each routine has its own       *)
(* specification (SpecLoad, SpecWalk, ...) whose Init draws the inputs     *)
(* (image, path, handle, ...) from bounded sets.                           *)
(*                                                                         *)
(* Variables                                                               *)
(*   iso  the ISO structure and the image bytes it maps (util.h:16-21)     *)
(*   ld   the locals of load_iso               (isofs.c:64-113)            *)
(*   pn   the locals of get_path_names         (util.h:55-97)              *)
(*   gr   the locals of get_record             (isofs.c:138-199)           *)
(*   rd   the locals of isofs_readdir          (isofs.c:438-469)           *)
(*   rr   the locals of read_rock_ridge_data   (util.h:212-300)            *)
(*   fh   an open file and the isofs_read call on it (isofs.c:485-556)     *)
(* A routine that a specification does not run stays Idle.                 *)
(***************************************************************************)
EXTENDS Integers, Sequences, FiniteSets, TLC

VARIABLES iso, ld, pn, gr, rd, rr, fh, cb, mn, th

vars == <<iso, ld, pn, gr, rd, rr, fh, cb, mn, th>>

Idle == [pc |-> "idle"]

Min(a, b) == IF a < b THEN a ELSE b
Max(a, b) == IF a < b THEN b ELSE a

(* size_t arithmetic.  a - b is taken modulo 2^64; every a and b of the    *)
(* model is below 2^31, so a difference that wrapped is 2^64 - deficit, a  *)
(* value above every other quantity of the model.                          *)
SizeT(n) == [wrapped |-> FALSE, value |-> n]
SizeTSub(a, b) ==
  IF b <= a THEN [wrapped |-> FALSE, value |-> a - b]
  ELSE [wrapped |-> TRUE, deficit |-> b - a]
(* d < n and n < d, for a size_t d and an n below 2^31.                    *)
SizeTLess(d, n)    == IF d.wrapped THEN FALSE ELSE d.value < n
SizeTGreater(d, n) == IF d.wrapped THEN TRUE ELSE d.value > n

---------------------------------------------------------------------------
(* Error numbers (the values are the host's <errno.h>; only their identity *)
(* matters, so they are modelled as strings).                              *)
OK           == "OK"
EINVAL       == "EINVAL"
ENOENT       == "ENOENT"
ENOTDIR      == "ENOTDIR"
ENAMETOOLONG == "ENAMETOOLONG"

---------------------------------------------------------------------------
(*                       load_iso  (isofs.c:64-113)                        *)
---------------------------------------------------------------------------
(* Volume descriptor type codes and header constants (iso.h:90-97).        *)
VD_PRIMARY       == 1
VD_SUPPLEMENTARY == 2
VD_TERMINATOR    == 255
CD001            == "CD001"

(* First descriptor offset and descriptor stride (isofs.c:80, isofs.c:96). *)
DescStart  == 32768
DescStride == 2048
(* Size of a VolumeDescriptor header: type_code, id[5], version            *)
(* (iso.h:111-116); version is its last byte, at offset + 6.               *)
HeaderLen  == 7

(* A file mapping's bytes between the end of the file and the end of its   *)
(* last page read as zero (the mapping is made by mmap, isofs.c:77); the   *)
(* header at a descriptor offset < size lies in the page of that offset.   *)
PastEofByte == 0

(* Bounds of the loader's inputs.                                          *)
MaxDesc == 3

(* The headers an image may carry at 0x8000, 0x8800, ...                   *)
HeaderSet ==
  [type_code : {VD_PRIMARY, VD_SUPPLEMENTARY, VD_TERMINATOR},
   id        : {CD001, "CD002"},
   version   : {1, 2}]

RECURSIVE SeqsUpTo(_, _)
SeqsUpTo(S, n) ==
  IF n = 0 THEN {<<>>}
  ELSE LET T == SeqsUpTo(S, n - 1)
       IN  T \cup {Append(t, x) : t \in {u \in T : Len(u) = n - 1}, x \in S}

(* How much of the last descriptor sector the file holds: only the type    *)
(* byte, the header without its version byte, the whole header but not the *)
(* whole sector, the whole sector.                                         *)
TailSet == {1, HeaderLen - 1, HeaderLen, DescStride}

DescOffset(k) == DescStart + (k - 1) * DescStride

LoadImages ==
  {[size |-> 0, descs |-> <<>>],
   [size |-> DescStart - 1, descs |-> <<>>],
   [size |-> DescStart, descs |-> <<>>]}
  \cup
  {[size |-> DescOffset(Len(d)) + t, descs |-> d] :
      d \in SeqsUpTo(HeaderSet, MaxDesc) \ {<<>>}, t \in TailSet}

(* The descriptor the image holds at a descriptor offset.                  *)
DescIndex(off) == (off - DescStart) \div DescStride + 1

(* iso->raw[offset + 6], the version byte (iso.h:115).                     *)
RawVersion(im, off) ==
  IF off + HeaderLen - 1 < im.size
  THEN im.descs[DescIndex(off)].version
  ELSE PastEofByte

(* curr_descr->version != 1 || memcmp(curr_descr->id, CD001, 5) != 0       *)
(* (isofs.c:85); the id is compared only when the version is 1.            *)
BadHeader(im, off) ==
  \/ RawVersion(im, off) # 1
  \/ im.descs[DescIndex(off)].id # CD001

(* The loop condition, isofs.c:82.                                         *)
LoadLoopCond(im, off) == off < im.size

LdInit ==
  [pc |-> "loop", offset |-> DescStart, terminated |-> FALSE, pvd |-> 0,
   errno |-> OK, oob |-> FALSE, iters |-> 0]

(* Whether the iteration at ld.offset reads a byte at an index >= size:    *)
(* the version byte is read first (isofs.c:85).                            *)
HeaderReadOob(im, off) == off + HeaderLen - 1 >= im.size

(* isofs.c:85-91: bad version or id: errno = EINVAL, return NULL.          *)
LoadIso_BadHeader ==
  /\ ld.pc = "loop"
  /\ LoadLoopCond(iso, ld.offset)
  /\ BadHeader(iso, ld.offset)
  /\ ld' = [ld EXCEPT !.pc = "failed", !.errno = EINVAL, !.pvd = 0,
                      !.oob = @ \/ HeaderReadOob(iso, ld.offset),
                      !.iters = @ + 1]
  /\ UNCHANGED <<iso, pn, gr, rd, rr, fh, cb, mn, th>>

(* LoadPvd without the !iso->pvd test: the last PRIMARY descriptor wins.   *)
LoadPvd_LastWins(im, l) ==
  IF im.descs[DescIndex(l.offset)].type_code = VD_PRIMARY
  THEN l.offset
  ELSE l.pvd

(* isofs.c:92-94: the first PRIMARY descriptor becomes the PVD.            *)
LoadPvd(im, l) ==
  IF im.descs[DescIndex(l.offset)].type_code = VD_PRIMARY /\ l.pvd = 0
  THEN l.offset
  ELSE l.pvd

(* isofs.c:95: a TERMINATOR ends the scan.                                 *)
LoadIso_Terminator ==
  /\ ld.pc = "loop"
  /\ LoadLoopCond(iso, ld.offset)
  /\ ~BadHeader(iso, ld.offset)
  /\ iso.descs[DescIndex(ld.offset)].type_code = VD_TERMINATOR
  /\ ld' = [ld EXCEPT !.pc = "scanned", !.terminated = TRUE,
                      !.pvd = LoadPvd(iso, ld),
                      !.oob = @ \/ HeaderReadOob(iso, ld.offset),
                      !.iters = @ + 1]
  /\ UNCHANGED <<iso, pn, gr, rd, rr, fh, cb, mn, th>>

(* isofs.c:92-96: any other valid descriptor: offset += 0x800.             *)
LoadIso_Advance ==
  /\ ld.pc = "loop"
  /\ LoadLoopCond(iso, ld.offset)
  /\ ~BadHeader(iso, ld.offset)
  /\ iso.descs[DescIndex(ld.offset)].type_code # VD_TERMINATOR
  /\ ld' = [ld EXCEPT !.pvd = LoadPvd(iso, ld),
                      !.offset = @ + DescStride,
                      !.oob = @ \/ HeaderReadOob(iso, ld.offset),
                      !.iters = @ + 1]
  /\ UNCHANGED <<iso, pn, gr, rd, rr, fh, cb, mn, th>>

(* isofs.c:82: the loop ends at the end of the image.                      *)
LoadIso_EndOfImage ==
  /\ ld.pc = "loop"
  /\ ~LoadLoopCond(iso, ld.offset)
  /\ ld' = [ld EXCEPT !.pc = "scanned"]
  /\ UNCHANGED <<iso, pn, gr, rd, rr, fh, cb, mn, th>>

(* isofs.c:103-109: no PVD or no terminator: errno = EINVAL, return NULL.  *)
LoadIso_Reject ==
  /\ ld.pc = "scanned"
  /\ (ld.pvd = 0 \/ ~ld.terminated)
  /\ ld' = [ld EXCEPT !.pc = "failed", !.errno = EINVAL, !.pvd = 0]
  /\ UNCHANGED <<iso, pn, gr, rd, rr, fh, cb, mn, th>>

(* isofs.c:112: return iso.                                                *)
LoadIso_Return ==
  /\ ld.pc = "scanned"
  /\ ~(ld.pvd = 0 \/ ~ld.terminated)
  /\ ld' = [ld EXCEPT !.pc = "loaded"]
  /\ UNCHANGED <<iso, pn, gr, rd, rr, fh, cb, mn, th>>

InitLoad ==
  /\ iso \in LoadImages
  /\ ld = LdInit
  /\ pn = Idle /\ gr = Idle /\ rd = Idle /\ rr = Idle /\ fh = Idle
  /\ cb = Idle /\ mn = Idle /\ th = Idle

NextLoad ==
  \/ LoadIso_BadHeader
  \/ LoadIso_Terminator
  \/ LoadIso_Advance
  \/ LoadIso_EndOfImage
  \/ LoadIso_Reject
  \/ LoadIso_Return

SpecLoad == InitLoad /\ [][NextLoad]_vars

(* What the image itself says, independently of the scan.                  *)
HeaderInImageOk(im, k) ==
  /\ DescOffset(k) + HeaderLen <= im.size
  /\ im.descs[k].id = CD001
  /\ im.descs[k].version = 1

VisitedDescs(im) == {k \in 1..Len(im.descs) : DescOffset(k) < im.size}

Primaries(im) == {k \in VisitedDescs(im) : im.descs[k].type_code = VD_PRIMARY}

(* A terminator t is in the image, no terminator precedes it, every header *)
(* up to and including t is valid, and a PRIMARY descriptor precedes t.    *)
Accepted(im) ==
  \E t \in VisitedDescs(im) :
     /\ im.descs[t].type_code = VD_TERMINATOR
     /\ \A k \in 1..t : HeaderInImageOk(im, k)
     /\ \A k \in 1..(t - 1) : im.descs[k].type_code # VD_TERMINATOR
     /\ \E p \in 1..(t - 1) : im.descs[p].type_code = VD_PRIMARY

FirstPrimary(im) == CHOOSE p \in Primaries(im) : \A q \in Primaries(im) : p <= q

(* C1: load_iso succeeds exactly on the images whose descriptors, scanned  *)
(* from 0x8000 in 2048-byte steps, are all valid up to and including the   *)
(* first TERMINATOR, with a PRIMARY descriptor before it; the recorded PVD *)
(* is the first PRIMARY descriptor, and every other image is rejected with *)
(* EINVAL.                                                                 *)
C1_LoadAcceptsExactly ==
  /\ ld.pc = "loaded" =>
        /\ Accepted(iso)
        /\ ld.pvd = DescOffset(FirstPrimary(iso))
        /\ ld.errno = OK
  /\ ld.pc = "failed" => (~Accepted(iso) /\ ld.errno = EINVAL /\ ld.pvd = 0)
  /\ ld.pc \in {"loop", "scanned"} => ENABLED NextLoad

(* A load that succeeded on an image with two PRIMARY descriptors before   *)
(* the terminator.                                                         *)
C1_Witness ==
  /\ ld.pc = "loaded"
  /\ Cardinality(Primaries(iso)) >= 2

(* C2: load_iso never reads at an index >= the image length (a descriptor  *)
(* is inspected only when offset + 2048 <= size), and the scan takes at    *)
(* most (size - 0x8000)/2048 + 1 iterations.                               *)
C2_LoadReadsInBounds ==
  /\ ~ld.oob
  /\ ld.iters <= Max(0, iso.size - DescStart) \div DescStride + 1
---------------------------------------------------------------------------
(*                     get_path_names  (util.h:55-97)                      *)
---------------------------------------------------------------------------
(* A C string is modelled as the sequence of its characters before the     *)
(* terminating NUL; CharAt is path[i].                                     *)
NUL == "NUL"
CharAt(str, i) == IF i < Len(str) THEN str[i + 1] ELSE NUL

(* path_names.names has 32 slots (util.h:28, loop bound util.h:72).        *)
MaxNames == 32
(* The longest name accepted (util.h:75).                                  *)
MaxNameLen == 255

(* Bound of the exhaustively enumerated paths.                             *)
MaxPathLen == 6

Rep(c, n) == [i \in 1..n |-> c]

RECURSIVE JoinParts(_)
JoinParts(parts) ==
  IF parts = <<>> THEN <<>>
  ELSE <<"/">> \o Head(parts) \o JoinParts(Tail(parts))

(* Every string over {'/', 'a'} of at most MaxPathLen characters, and the  *)
(* paths that sit on the limits: MaxNames-1, MaxNames and MaxNames+1 short *)
(* names; one name of MaxNameLen-1, MaxNameLen and MaxNameLen+1 bytes at   *)
(* the front, in the middle or at the end; MaxNames names of MaxNameLen    *)
(* or MaxNameLen+1 bytes; each with and without a trailing slash.          *)
PathInputs ==
  SeqsUpTo({"/", "a"}, MaxPathLen)
  \cup
  {JoinParts([i \in 1..k |-> <<"a">>]) \o t :
      k \in {MaxNames - 1, MaxNames, MaxNames + 1}, t \in {<<>>, <<"/">>, <<"/", "/">>}}
  \cup
  {JoinParts(pre \o <<Rep("a", n)>> \o post) \o t :
      n \in {MaxNameLen - 1, MaxNameLen, MaxNameLen + 1},
      pre \in {<<>>, <<<<"a">>>>}, post \in {<<>>, <<<<"a">>>>},
      t \in {<<>>, <<"/">>}}
  \cup
  {JoinParts([i \in 1..MaxNames |-> Rep("a", n)]) \o t :
      n \in {MaxNameLen, MaxNameLen + 1}, t \in {<<>>, <<"/">>}}
  \cup
  {JoinParts([i \in 1..(MaxNames + 1) |->
                 IF i = MaxNames + 1 THEN Rep("a", MaxNameLen + 1) ELSE <<"a">>])}

PnInit(path) ==
  [pc |-> "entry", path |-> path, start |-> 0, count |-> 0, names |-> <<>>,
   trailing_slash |-> FALSE, errno |-> OK]

(* strchr(path + start, '/') - path: the index of the next '/', or -1 for  *)
(* a null result (util.h:73).                                              *)
NextSlash(path, start) ==
  LET S == {i \in start..(Len(path) - 1) : CharAt(path, i) = "/"}
  IN  IF S = {} THEN -1 ELSE CHOOSE i \in S : \A j \in S : i <= j

(* size_t end = slash ? slash - path : strlen(path)  (util.h:74).          *)
PartEnd(path, start) ==
  IF NextSlash(path, start) = -1 THEN Len(path) ELSE NextSlash(path, start)

(* The loop condition with the bound off by one: 33 names fit.             *)
PathNamesLoopCond_OffByOne(p) == p.count <= MaxNames

(* while (names->count < 32)  (util.h:72).                                 *)
PathNamesLoopCond(p) == p.count < MaxNames

(* if (end - start > 255)  (util.h:75).                                    *)
PartTooLong(path, start) == PartEnd(path, start) - start > MaxNameLen

(* if (!slash || path[start] == '\0'), start being end + 1  (util.h:86-87).*)
PartIsLast(path, start) ==
  \/ NextSlash(path, start) = -1
  \/ CharAt(path, PartEnd(path, start) + 1) = NUL

(* strndup(path + start, end - start)  (util.h:80).                        *)
PartName(path, start) == SubSeq(path, start + 1, PartEnd(path, start))

(* util.h:57: the path does not start with '/'.                            *)
PathNames_NotAbsolute ==
  /\ pn.pc = "entry"
  /\ CharAt(pn.path, 0) # "/"
  /\ pn' = [pn EXCEPT !.pc = "failed", !.errno = ENOENT]
  /\ UNCHANGED <<iso, ld, gr, rd, rr, fh, cb, mn, th>>

(* util.h:62-68: the path is "/".                                          *)
PathNames_Root ==
  /\ pn.pc = "entry"
  /\ CharAt(pn.path, 0) = "/"
  /\ CharAt(pn.path, 1) = NUL
  /\ pn' = [pn EXCEPT !.pc = "done", !.count = 0, !.trailing_slash = TRUE]
  /\ UNCHANGED <<iso, ld, gr, rd, rr, fh, cb, mn, th>>

(* util.h:62-71: any other absolute path enters the loop with start = 1.   *)
PathNames_Begin ==
  /\ pn.pc = "entry"
  /\ CharAt(pn.path, 0) = "/"
  /\ CharAt(pn.path, 1) # NUL
  /\ pn' = [pn EXCEPT !.pc = "loop", !.count = 0, !.start = 1]
  /\ UNCHANGED <<iso, ld, gr, rd, rr, fh, cb, mn, th>>

(* util.h:75-79: a name longer than 255 bytes.                             *)
PathNames_NameTooLong ==
  /\ pn.pc = "loop"
  /\ PathNamesLoopCond(pn)
  /\ PartTooLong(pn.path, pn.start)
  /\ pn' = [pn EXCEPT !.pc = "failed", !.errno = ENAMETOOLONG]
  /\ UNCHANGED <<iso, ld, gr, rd, rr, fh, cb, mn, th>>

(* util.h:80-86: a name is copied and more names follow.                   *)
PathNames_Part ==
  /\ pn.pc = "loop"
  /\ PathNamesLoopCond(pn)
  /\ ~PartTooLong(pn.path, pn.start)
  /\ ~PartIsLast(pn.path, pn.start)
  /\ pn' = [pn EXCEPT !.names = Append(@, PartName(pn.path, pn.start)),
                      !.count = @ + 1,
                      !.start = PartEnd(pn.path, pn.start) + 1]
  /\ UNCHANGED <<iso, ld, gr, rd, rr, fh, cb, mn, th>>

(* util.h:80-90: the last name is copied; trailing_slash = !!slash.        *)
PathNames_LastPart ==
  /\ pn.pc = "loop"
  /\ PathNamesLoopCond(pn)
  /\ ~PartTooLong(pn.path, pn.start)
  /\ PartIsLast(pn.path, pn.start)
  /\ pn' = [pn EXCEPT !.pc = "done",
                      !.names = Append(@, PartName(pn.path, pn.start)),
                      !.count = @ + 1,
                      !.start = PartEnd(pn.path, pn.start) + 1,
                      !.trailing_slash = (NextSlash(pn.path, pn.start) # -1)]
  /\ UNCHANGED <<iso, ld, gr, rd, rr, fh, cb, mn, th>>

(* util.h:93-96: 32 names were copied and the path goes on.                *)
PathNames_TooMany ==
  /\ pn.pc = "loop"
  /\ ~PathNamesLoopCond(pn)
  /\ pn' = [pn EXCEPT !.pc = "failed", !.errno = ENAMETOOLONG]
  /\ UNCHANGED <<iso, ld, gr, rd, rr, fh, cb, mn, th>>

InitPath ==
  /\ pn \in {PnInit(p) : p \in PathInputs}
  /\ iso = Idle /\ ld = Idle /\ gr = Idle /\ rd = Idle /\ rr = Idle /\ fh = Idle
  /\ cb = Idle /\ mn = Idle /\ th = Idle

NextPath ==
  \/ PathNames_NotAbsolute
  \/ PathNames_Root
  \/ PathNames_Begin
  \/ PathNames_NameTooLong
  \/ PathNames_Part
  \/ PathNames_LastPart
  \/ PathNames_TooMany

SpecPath == InitPath /\ [][NextPath]_vars

(* get_path_names as a function of the path, for its callers: the state    *)
(* the loop of util.h:72-92 ends in, from the state p at its head.         *)
RECURSIVE PathNamesLoop(_)
PathNamesLoop(p) ==
  IF ~PathNamesLoopCond(p)
    THEN [p EXCEPT !.pc = "failed", !.errno = ENAMETOOLONG]
  ELSE IF PartTooLong(p.path, p.start)
    THEN [p EXCEPT !.pc = "failed", !.errno = ENAMETOOLONG]
  ELSE IF PartIsLast(p.path, p.start)
    THEN [p EXCEPT !.pc = "done",
                   !.names = Append(@, PartName(p.path, p.start)),
                   !.count = @ + 1,
                   !.start = PartEnd(p.path, p.start) + 1,
                   !.trailing_slash = (NextSlash(p.path, p.start) # -1)]
  ELSE PathNamesLoop([p EXCEPT !.names = Append(@, PartName(p.path, p.start)),
                               !.count = @ + 1,
                               !.start = PartEnd(p.path, p.start) + 1])

GetPathNames(path) ==
  IF CharAt(path, 0) # "/"
    THEN [PnInit(path) EXCEPT !.pc = "failed", !.errno = ENOENT]
  ELSE IF CharAt(path, 1) = NUL
    THEN [PnInit(path) EXCEPT !.pc = "done", !.trailing_slash = TRUE]
  ELSE PathNamesLoop([PnInit(path) EXCEPT !.pc = "loop", !.start = 1])

(* The split the path itself defines: the boundaries are the '/' characters*)
(* and, when the path does not end in '/', the end of the string; the      *)
(* names are the substrings between consecutive boundaries.                *)
EndsInSlash(path) == Len(path) > 0 /\ path[Len(path)] = "/"

Boundaries(path) ==
  {i \in 1..Len(path) : path[i] = "/"}
  \cup (IF EndsInSlash(path) THEN {} ELSE {Len(path) + 1})

(* The k-th boundary, in increasing order.                                 *)
Boundary(path, k) ==
  CHOOSE b \in Boundaries(path) :
    Cardinality({c \in Boundaries(path) : c < b}) = k - 1

SplitCount(path) == Cardinality(Boundaries(path)) - 1

SplitNames(path) ==
  [k \in 1..SplitCount(path) |->
     SubSeq(path, Boundary(path, k) + 1, Boundary(path, k + 1) - 1)]

SplitFits(path) ==
  /\ SplitCount(path) <= MaxNames
  /\ \A k \in 1..SplitCount(path) : Len(SplitNames(path)[k]) <= MaxNameLen

(* C9: get_path_names fails with ENOENT on a path that does not start with *)
(* '/'; fails with ENAMETOOLONG on a path with more than 32 names or a name*)
(* longer than 255 bytes; otherwise returns the substrings between         *)
(* consecutive '/' in order, with trailing_slash set exactly when the path *)
(* ends in '/'.                                                            *)
C9_PathNamesSplit ==
  /\ pn.pc = "done" =>
        /\ CharAt(pn.path, 0) = "/"
        /\ SplitFits(pn.path)
        /\ pn.count = SplitCount(pn.path)
        /\ pn.names = SplitNames(pn.path)
        /\ pn.trailing_slash = EndsInSlash(pn.path)
  /\ pn.pc = "failed" =>
        /\ pn.errno \in {ENOENT, ENAMETOOLONG}
        /\ pn.errno = ENOENT <=> CharAt(pn.path, 0) # "/"
        /\ pn.errno = ENAMETOOLONG => ~SplitFits(pn.path)
  /\ pn.pc \in {"entry", "loop"} => ENABLED NextPath

(* A path of exactly 32 names of exactly 255 bytes was accepted.           *)
C9_Witness ==
  /\ pn.pc = "done"
  /\ pn.count = MaxNames
  /\ \A k \in 1..MaxNames : Len(pn.names[k]) = MaxNameLen

---------------------------------------------------------------------------
(*                      isofs_read  (isofs.c:544-556)                      *)
---------------------------------------------------------------------------
(* Bounds of the read requests: the file length, and how far past it the   *)
(* offset and the byte count go.                                           *)
MaxFileLen == 3
MaxReadArg == 5

(* f->size - offset is taken in size_t arithmetic (isofs.c:552): the off_t *)
(* offset is converted to size_t.                                          *)
(* if (f->size - offset < size)  (isofs.c:552).                            *)
ReadIsShort(f, offset, size) == SizeTLess(SizeTSub(f.size, offset), size)

(* memcpy(buf, f->data + offset, size): buf is modelled by the indices,    *)
(* relative to f->data, of the bytes copied into it (isofs.c:553).         *)
Memcpy(offset, size) == [i \in 1..size |-> offset + i - 1]

(* An open file: the isofs_file that isofs_open made (isofs.c:485-488,     *)
(* 523-524).  data is the extent's place in the image, size its length.    *)
FhInit(len) ==
  [pc |-> "open", size |-> len, offset |-> 0, n |-> 0, ret |-> 0, buf |-> <<>>]

(* isofs.c:552-555, the request runs past the end: size = f->size - offset.*)
IsofsRead_Short ==
  \E offset \in 0..MaxReadArg, size \in 0..MaxReadArg :
    /\ fh.pc \in {"open", "read"}
    /\ ReadIsShort(fh, offset, size)
    /\ fh' = [fh EXCEPT !.pc = "read", !.offset = offset, !.n = size,
                        !.ret = fh.size - offset,
                        !.buf = Memcpy(offset, fh.size - offset)]
    /\ UNCHANGED <<iso, ld, pn, gr, rd, rr, cb, mn, th>>

(* isofs.c:552-555, otherwise: size bytes are copied.                      *)
IsofsRead_Whole ==
  \E offset \in 0..MaxReadArg, size \in 0..MaxReadArg :
    /\ fh.pc \in {"open", "read"}
    /\ ~ReadIsShort(fh, offset, size)
    /\ fh' = [fh EXCEPT !.pc = "read", !.offset = offset, !.n = size,
                        !.ret = size,
                        !.buf = Memcpy(offset, size)]
    /\ UNCHANGED <<iso, ld, pn, gr, rd, rr, cb, mn, th>>

InitRead ==
  /\ fh \in {FhInit(len) : len \in 0..MaxFileLen}
  /\ iso = Idle /\ ld = Idle /\ pn = Idle /\ gr = Idle /\ rd = Idle /\ rr = Idle
  /\ cb = Idle /\ mn = Idle /\ th = Idle

NextRead ==
  \/ IsofsRead_Short
  \/ IsofsRead_Whole

SpecRead == InitRead /\ [][NextRead]_vars

(* C10: isofs_read returns max(0, min(n, L - offset)), copies exactly that *)
(* many bytes, taken from extent bytes [offset, offset + result), returns  *)
(* 0 when offset >= L, and copies no byte beyond the end of the extent.    *)
C10_ReadTruncates ==
  fh.pc = "read" =>
    /\ fh.ret = Max(0, Min(fh.n, fh.size - fh.offset))
    /\ fh.buf = [i \in 1..fh.ret |-> fh.offset + i - 1]
    /\ \A i \in 1..Len(fh.buf) : fh.buf[i] < fh.size

---------------------------------------------------------------------------
(*                The image bytes and the packed structures                *)
---------------------------------------------------------------------------
(* An image is [size, bytes]: bytes maps the indices that hold a non-zero  *)
(* byte to it; every other index below size holds 0.                       *)
Byte(im, i) == IF i \in DOMAIN im.bytes THEN im.bytes[i] ELSE 0

(* uint16_lsb fields (iso.h:21), and uint32_lsb fields (iso.h:22) as two  *)
(* 16-bit limbs [hi, lo], so that every 32-bit value has its place.        *)
LE16(im, i) == Byte(im, i) + 256 * Byte(im, i + 1)
LE32(im, i) == [hi |-> LE16(im, i + 2), lo |-> LE16(im, i)]

(* uint32_t arithmetic, modulo 2^32, on limbs.                             *)
U32Of(n) == [hi |-> n \div 65536, lo |-> n % 65536]

(* x * b modulo 2^16 and the carry (x * b) \div 2^16, for 16-bit x and b.  *)
Mul16Lo(x, b) == ((x * (b % 256)) + (((x * (b \div 256)) % 256) * 256)) % 65536
Mul16Hi(x, b) ==
  LET t1 == x * (b % 256)
      t2 == x * (b \div 256)
  IN  ((t1 + ((t2 % 256) * 256)) \div 65536) + (t2 \div 256)

(* U32Mul(u, b): u * b for a 16-bit b.                                     *)
U32Mul(u, b) ==
  [hi |-> (Mul16Hi(u.lo, b) + Mul16Lo(u.hi, b)) % 65536, lo |-> Mul16Lo(u.lo, b)]

U32Add(u, v) ==
  [hi |-> (u.hi + v.hi + ((u.lo + v.lo) \div 65536)) % 65536,
   lo |-> (u.lo + v.lo) % 65536]

(* A 32-bit value of 2^31 or more is above every index and size of the     *)
(* model; FarIndex stands for it where an index is needed.                 *)
U32Small(u) == u.hi < 32768
FarIndex    == 32767 * 65536 + 65535
U32Index(u) == IF U32Small(u) THEN u.hi * 65536 + u.lo ELSE FarIndex

(* Field offsets in a Record (iso.h:64-82).                                *)
RecExtentLocation == 2
RecExtentLength   == 10
RecFileFlags      == 25
RecFilenameLength == 32
RecFilename       == 33
(* FILE_DIRECTORY (iso.h:48), as the bit's weight.                         *)
FILE_DIRECTORY    == 2

(* Field offsets in a PrimaryVolumeDescriptor (iso.h:126-165).             *)
PvdLogicalBlockSize == 128
PvdRootRecord       == 156

(* iso->pvd->logical_block_size.                                           *)
BlockSize(im) == LE16(im, im.pvd + PvdLogicalBlockSize)

(* Building images: the bytes of a field and of a record.                  *)
Enc16(v) == <<v % 256, v \div 256>>
Enc32U(u) == <<u.lo % 256, u.lo \div 256, u.hi % 256, u.hi \div 256>>
Enc32(v) == Enc32U(U32Of(v))
Rev(q)   == [i \in 1..Len(q) |-> q[Len(q) + 1 - i]]
Both32U(u) == Enc32U(u) \o Rev(Enc32U(u))
Both32(v) == Both32U(U32Of(v))
Zeros(n) == [i \in 1..n |-> 0]

(* The non-zero bytes of seq, placed at index at.                          *)
Place(at, seq) ==
  LET D == {i \in 1..Len(seq) : seq[i] # 0}
  IN  [j \in {at + i - 1 : i \in D} |-> seq[j - at + 1]]

(* A directory record: its length byte is given apart from its content so *)
(* that a record may declare a length or a name length that its bytes do  *)
(* not bear out.                                                           *)
RecordBytes(length, loc, len, flags, fnlen, name, su) ==
  <<length, 0>> \o Both32U(loc) \o Both32U(len) \o Zeros(7)
    \o <<flags, 0, 0, 1, 0, 0, 1, fnlen>> \o name
    \o (IF Len(name) % 2 = 0 THEN <<0>> ELSE <<>>) \o su

---------------------------------------------------------------------------
(*      get_susp_field, read_rock_ridge_data  (util.h:140-185, 212-300)    *)
---------------------------------------------------------------------------
(* SUSP signatures as 16-bit little-endian integers (iso.h:173-188).       *)
SUSP_SP == 20563
SUSP_ST == 21587
SUSP_CE == 17731
SUSP_ER == 21061
SUSP_PX == 22608
SUSP_NM == 19790
SUSP_TF == 18004
SUSP_SP_BEEF == 61374

(* Field lengths, sizeof(susp_X) + 4 (iso.h:216-300, util.h:147-180).      *)
SuspHeaderLen == 4
SuspLenSP     == 7
SuspLenCE     == 28
SuspLenER     == 8
SuspLenPX     == 44
SuspLenNM     == 5
SuspLenTF     == 5
(* sizeof(datetime), sizeof(dec_datetime) (iso.h:54-62, 99-109).           *)
DatetimeLen    == 7
DecDatetimeLen == 17
(* The end of the gid word of a PX field, and of its ino word, relative to *)
(* the field (iso.h:255-266).                                              *)
PxStatEnd == 32
PxInoEnd  == 40

(* NM flags (iso.h:201-203) and the TF flag bits (iso.h:207-214).          *)
SUSP_RR_CONTINUE == 1
SUSP_RR_CURRENT  == 2
SUSP_RR_PARENT   == 4
HasBit(flags, weight) == (flags \div weight) % 2 = 1
SUSP_TF_CREATION     == 1
SUSP_TF_MODIFICATION == 2
SUSP_TF_ACCESS       == 4
SUSP_TF_LONG_FORM    == 128

(* length - offset in size_t arithmetic, for offset < length.              *)
SizeTMinus(d, n) ==
  IF d.wrapped THEN [wrapped |-> TRUE, deficit |-> d.deficit + n]
  ELSE [wrapped |-> FALSE, value |-> d.value - n]

(* get_susp_field(data, length) for data at image index d  (util.h:140-185)*)
(* "NULL", "OK", or "OOB" when it reads at an index >= size.  Of the       *)
(* signatures only SP, ST, CE and ER are validated: every later case of    *)
(* the switch breaks before its test.                                      *)
GetSuspField(im, d, length) ==
  IF SizeTLess(length, SuspHeaderLen) THEN "NULL"
  ELSE IF d + 2 >= im.size THEN "OOB"
  ELSE IF SizeTLess(length, Byte(im, d + 2)) THEN "NULL"
  ELSE LET sig == LE16(im, d)
           len == Byte(im, d + 2)
       IN  CASE sig = SUSP_SP ->
                  IF len # SuspLenSP THEN "NULL"
                  ELSE IF d + 5 >= im.size THEN "OOB"
                  ELSE IF LE16(im, d + 4) # SUSP_SP_BEEF THEN "NULL" ELSE "OK"
             [] sig = SUSP_ST -> IF len # SuspHeaderLen THEN "NULL" ELSE "OK"
             [] sig = SUSP_CE -> IF len # SuspLenCE THEN "NULL" ELSE "OK"
             [] sig = SUSP_ER ->
                  IF len < SuspLenER THEN "NULL"
                  ELSE IF d + 6 >= im.size THEN "OOB"
                  ELSE IF len # SuspLenER + Byte(im, d + 4) + Byte(im, d + 5)
                                  + Byte(im, d + 6)
                       THEN "NULL" ELSE "OK"
             [] OTHER -> "OK"

(* The state of one read_rock_ridge_data call: the locals data, length,    *)
(* offset and the RRExtraData being filled (util.h:194-204); flags is the  *)
(* set of the RR_HAS_* bits (util.h:187-192).  fault records undefined     *)
(* behaviour: "oob" a read at an index >= size, "smash" a write past the   *)
(* end of rr->filename.  overread, seen and invalid are history: a payload *)
(* read beyond its field or buffer, the loop heads already passed, and a   *)
(* return because get_susp_field refused a field.                          *)
RRStart(rec) ==
  [pc |-> "entry", record |-> rec, data |-> 0, length |-> SizeT(0), offset |-> 0,
   flags |-> {}, filename |-> <<>>, mode |-> U32Of(0), nlinks |-> U32Of(0),
   uid |-> U32Of(0), gid |-> U32Of(0), ino |-> U32Of(0), creation |-> <<>>, modification |-> <<>>,
   access |-> <<>>, fault |-> "", overread |-> FALSE, seen |-> {},
   invalid |-> FALSE]

RRReturn(s)      == [s EXCEPT !.pc = "done"]
RRFault(s, what) == [s EXCEPT !.pc = "fault", !.fault = what]

(* util.h:215-224: the record must lie in the image and have a length;     *)
(* then data and length delimit its system-use area.                       *)
RREntry(im, s) ==
  LET r == s.record IN
  IF im.size <= r THEN RRReturn(s)
  ELSE IF im.size - Byte(im, r) < r THEN RRReturn(s)
  ELSE IF Byte(im, r) = 0 THEN RRReturn(s)
  ELSE IF r + RecFilenameLength >= im.size THEN RRFault(s, "oob")
  ELSE LET fl == Byte(im, r + RecFilenameLength)
           d  == r + RecFilename + fl + (1 - (fl % 2))
       IN  [s EXCEPT !.pc = "loop", !.data = d, !.offset = 0,
                     !.length = SizeTSub(r + Byte(im, r), d)]

RRLoopCond(s) == SizeTGreater(s.length, s.offset)

RRField(s) == s.data + s.offset
RRConfig(s) == <<s.data, s.offset, s.length>>

(* util.h:297-298: offset += susp->length; return on a zero length or ST.  *)
RRAdvance(im, s) ==
  LET len == Byte(im, RRField(s) + 2)
      t   == [s EXCEPT !.offset = @ + len, !.seen = @ \cup {RRConfig(s)}]
  IN  IF len = 0 \/ LE16(im, RRField(s)) = SUSP_ST THEN RRReturn(t) ELSE t

(* util.h:231: SP: offset += len_skp, then the advance.                    *)
RRFieldSP(im, s) ==
  IF RRField(s) + 6 >= im.size THEN RRFault(s, "oob")
  ELSE LET t == RRAdvance(im, s)
       IN  [t EXCEPT !.offset = @ + Byte(im, RRField(s) + 6)]

(* util.h:232-239: CE: continue in image[location*B + offset .. + length]. *)
RRFieldCE(im, s) ==
  LET d == RRField(s) IN
  IF d + 23 >= im.size THEN RRFault(s, "oob")
  ELSE LET at  == U32Add(U32Mul(LE32(im, d + 4), BlockSize(im)), LE32(im, d + 12))
           len == LE32(im, d + 20)
           t   == [s EXCEPT !.data = U32Index(at), !.offset = 0,
                            !.length = SizeT(U32Index(len)),
                            !.seen = @ \cup {RRConfig(s)}]
       IN  IF ~U32Small(at) \/ ~U32Small(len)
              \/ U32Index(len) > im.size - U32Index(at)
           THEN RRReturn(t) ELSE t

(* util.h:240-250: PX: mode, nlinks, uid, gid and, for a 44-byte field,    *)
(* ino.                                                                    *)
RRFieldPX(im, s) ==
  LET d    == RRField(s)
      len  == Byte(im, d + 2)
      last == IF len = SuspLenPX THEN PxInoEnd ELSE PxStatEnd
  IN  IF d + last - 1 >= im.size THEN RRFault(s, "oob")
      ELSE RRAdvance(im,
             [s EXCEPT !.flags = @ \cup {"STAT"}
                                   \cup (IF len = SuspLenPX THEN {"INO"} ELSE {}),
                       !.mode = LE32(im, d + 4), !.nlinks = LE32(im, d + 12),
                       !.uid = LE32(im, d + 20), !.gid = LE32(im, d + 28),
                       !.ino = IF len = SuspLenPX THEN LE32(im, d + 36) ELSE @,
                       !.overread = @ \/ last > len
                                      \/ SizeTLess(SizeTMinus(s.length, s.offset), last)])

(* strncpy(dst, src, n) for src at image index at: the bytes before the    *)
(* first NUL among the n, and the number of source bytes read.             *)
StrnLen(im, at, n) ==
  LET Z == {k \in 0..(n - 1) : Byte(im, at + k) = 0}
  IN  IF Z = {} THEN n ELSE CHOOSE k \in Z : \A j \in Z : k <= j
StrnRead(im, at, n) == Min(n, StrnLen(im, at, n) + 1)
Strncpy(im, at, n) == [k \in 1..StrnLen(im, at, n) |-> Byte(im, at + k - 1)]

(* util.h:251-264: NM: ".", ".." or the name bytes; the last NM wins.      *)
RRFieldNM(im, s) ==
  LET d   == RRField(s)
      len == Byte(im, d + 2)
      fl  == Byte(im, d + 4)
      u   == [s EXCEPT !.overread = @ \/ len < SuspLenNM
                          \/ SizeTLess(SizeTMinus(s.length, s.offset), SuspLenNM)]
  IN  IF d + 4 >= im.size THEN RRFault(s, "oob")
      ELSE IF fl = SUSP_RR_CURRENT
        THEN RRAdvance(im, [u EXCEPT !.flags = @ \cup {"FILENAME"},
                                     !.filename = <<46>>])
      ELSE IF fl = SUSP_RR_PARENT
        THEN RRAdvance(im, [u EXCEPT !.flags = @ \cup {"FILENAME"},
                                     !.filename = <<46, 46>>])
      ELSE IF fl = SUSP_RR_CONTINUE \/ fl = 0
        THEN IF len < SuspLenNM THEN RRFault(u, "smash")
             ELSE IF d + SuspLenNM + StrnRead(im, d + SuspLenNM, len - SuspLenNM) > im.size
               THEN RRFault(u, "oob")
             ELSE RRAdvance(im, [u EXCEPT !.flags = @ \cup {"FILENAME"},
                    !.filename = Strncpy(im, d + SuspLenNM, len - SuspLenNM)])
      ELSE RRAdvance(im, u)

(* One timestamp of a TF field, as the bytes conversion starts from.       *)
TfStamp(im, at, long) ==
  [long |-> long,
   bytes |-> [k \in 1..(IF long THEN DecDatetimeLen ELSE DatetimeLen) |->
                 Byte(im, at + k - 1)]]

(* util.h:271, 278, 285: if (tf_offset + ts_size < length && flags & BIT). *)
TfTakes(s, tf, ts, fl, bit) == SizeTGreater(s.length, tf + ts) /\ HasBit(fl, bit)

(* util.h:265-292: TF: creation, modification and access, each taken from  *)
(* the next timestamp slot when its flag bit is set.                       *)
RRFieldTF(im, s) ==
  LET d   == RRField(s)
      len == Byte(im, d + 2)
      fl  == Byte(im, d + 4)
      dec == HasBit(fl, SUSP_TF_LONG_FORM)
      ts  == IF dec THEN DecDatetimeLen ELSE DatetimeLen
      t0  == s.offset + SuspLenTF
      c   == TfTakes(s, t0, ts, fl, SUSP_TF_CREATION)
      t1  == IF c THEN t0 + ts ELSE t0
      m   == TfTakes(s, t1, ts, fl, SUSP_TF_MODIFICATION)
      t2  == IF m THEN t1 + ts ELSE t1
      a   == TfTakes(s, t2, ts, fl, SUSP_TF_ACCESS)
      t3  == IF a THEN t2 + ts ELSE t2
  IN  IF d + 4 >= im.size \/ s.data + t3 > im.size THEN RRFault(s, "oob")
      ELSE RRAdvance(im,
             [s EXCEPT !.flags = @ \cup (IF c THEN {"CREATION"} ELSE {})
                                   \cup (IF m THEN {"MODIFICATION"} ELSE {})
                                   \cup (IF a THEN {"ACCESS"} ELSE {}),
                       !.creation = IF c THEN TfStamp(im, s.data + t0, dec) ELSE @,
                       !.modification = IF m THEN TfStamp(im, s.data + t1, dec) ELSE @,
                       !.access = IF a THEN TfStamp(im, s.data + t2, dec) ELSE @,
                       !.overread = @ \/ len < SuspLenTF \/ t3 > s.offset + len])

(* Which branch the next step of the call takes.                           *)
RRKind(im, s) ==
  IF s.pc = "entry" THEN "entry"
  ELSE IF s.pc # "loop" THEN "none"
  ELSE IF ~RRLoopCond(s) THEN "end"
  ELSE IF RRConfig(s) \in s.seen THEN "again"
  ELSE LET g == GetSuspField(im, RRField(s), SizeTMinus(s.length, s.offset))
           sig == LE16(im, RRField(s))
       IN  IF g = "NULL" THEN "invalid"
           ELSE IF g = "OOB" THEN "oob"
           ELSE CASE sig = SUSP_SP -> "SP"
                  [] sig = SUSP_CE -> "CE"
                  [] sig = SUSP_PX -> "PX"
                  [] sig = SUSP_NM -> "NM"
                  [] sig = SUSP_TF -> "TF"
                  [] OTHER -> "other"

(* One step of read_rock_ridge_data.                                       *)
RRStep(im, s) ==
  LET k == RRKind(im, s) IN
  CASE k = "entry"   -> RREntry(im, s)
    [] k = "end"     -> RRReturn(s)
    [] k = "again"   -> [s EXCEPT !.pc = "forever"]
    [] k = "invalid" -> [RRReturn(s) EXCEPT !.invalid = TRUE]
    [] k = "oob"     -> RRFault(s, "oob")
    [] k = "SP"      -> RRFieldSP(im, s)
    [] k = "CE"      -> RRFieldCE(im, s)
    [] k = "PX"      -> RRFieldPX(im, s)
    [] k = "NM"      -> RRFieldNM(im, s)
    [] k = "TF"      -> RRFieldTF(im, s)
    [] k = "other"   -> RRAdvance(im, s)
    [] OTHER         -> s

RRHalted(s) == s.pc \in {"done", "fault", "forever"}

(* The whole call: the state it ends in.  A call that comes back to a loop *)
(* head it has passed, with the same data, offset and length, repeats      *)
(* itself from there and never returns: "forever".                         *)
RECURSIVE RRRun(_, _)
RRRun(im, s) == IF RRHalted(s) THEN s ELSE RRRun(im, RRStep(im, s))

ReadRockRidgeData(im, rec) == RRRun(im, RRStart(rec))

---------------------------------------------------------------------------
(*      read_rock_ridge_data on small images                               *)
---------------------------------------------------------------------------
(* The images: a primary volume descriptor at 0x8000 with 2048-byte        *)
(* blocks, two continuation areas in block 17 and one record at the start  *)
(* of block 18, after which the image ends at once or one block later.     *)
MaxFields == 2

RRBlock   == DescStride
AreaBlock == 17
AreaPX    == 512
AreaLoop  == 1024
RRRecAt   == (AreaBlock + 1) * RRBlock
RRMode    == 33261
LongName  == 250
FarLength == 100000

FieldSP   == <<83, 80, 7, 1, 190, 239, 0>>
FieldST   == <<83, 84, 4, 1>>
FieldCE(off, len) == <<67, 69, 28, 1>> \o Both32(AreaBlock) \o Both32(off) \o Both32(len)
FieldPX44 == <<80, 88, 44, 1>> \o Both32(RRMode) \o Both32(1) \o Both32(0)
               \o Both32(0) \o Both32(7)
FieldPX36 == <<80, 88, 36, 1>> \o Both32(RRMode) \o Both32(1) \o Both32(0)
               \o Both32(0)
FieldPX4  == <<80, 88, 4, 1>>
FieldNM   == <<78, 77, 6, 1, 0, 97>>
FieldNMCurrent == <<78, 77, 5, 1, 2>>
FieldNM4  == <<78, 77, 4, 1>>
FieldTF   == <<84, 70, 12, 1, 1, 120, 1, 1, 0, 0, 0, 0>>
FieldRR   == <<82, 82, 5, 1, 137>>
FieldZero == <<0, 0, 0, 0>>
FieldBadSP == <<83, 80, 7, 1, 0, 0, 0>>
FieldStub  == <<82, 82>>

FieldSet ==
  {FieldSP, FieldST, FieldCE(AreaPX, 44), FieldCE(AreaLoop, 28),
   FieldCE(0, FarLength), FieldPX44, FieldPX36, FieldPX4, FieldNM,
   FieldNMCurrent, FieldNM4, FieldTF, FieldRR, FieldZero, FieldBadSP,
   FieldStub}

RECURSIVE Concat(_)
Concat(q) == IF q = <<>> THEN <<>> ELSE Head(q) \o Concat(Tail(q))

SystemUseSet == {Concat(q) : q \in SeqsUpTo(FieldSet, MaxFields)}

RRBase ==
  Place(DescStart, <<VD_PRIMARY, 67, 68, 48, 48, 49, 1>>)
    @@ Place(DescStart + PvdLogicalBlockSize, Enc16(RRBlock))
    @@ Place(AreaBlock * RRBlock + AreaPX, FieldPX44)
    @@ Place(AreaBlock * RRBlock + AreaLoop, FieldCE(AreaLoop, 28))

RRImage(rec, length, slack) ==
  [size |-> RRRecAt + length + slack, pvd |-> DescStart,
   bytes |-> RRBase @@ Place(RRRecAt, rec)]

(* honest records, records whose filename_length reaches past their        *)
(* length, a record shorter than the fixed part of a Record, and a         *)
(* zero-length record.                                                     *)
RRImages ==
  {RRImage(RecordBytes(RecFilename + 1 + Len(su), U32Of(0), U32Of(0), 0, fl,
                      <<97>>, su),
           RecFilename + 1 + Len(su), slack) :
      su \in SystemUseSet, fl \in {1, LongName}, slack \in {0, RRBlock}}
  \cup {RRImage(SubSeq(RecordBytes(RecExtentLength, U32Of(0), U32Of(0), 0, 1,
                                 <<97>>, <<>>),
                       1, RecExtentLength), RecExtentLength, slack) :
          slack \in {0, RRBlock}}
  \cup {RRImage(<<>>, 0, RRBlock)}

RR_Entry ==
  /\ RRKind(iso, rr) = "entry"
  /\ rr' = RRStep(iso, rr)
  /\ UNCHANGED <<iso, ld, pn, gr, rd, fh, cb, mn, th>>

RR_EndOfArea ==
  /\ RRKind(iso, rr) = "end"
  /\ rr' = RRStep(iso, rr)
  /\ UNCHANGED <<iso, ld, pn, gr, rd, fh, cb, mn, th>>

RR_Invalid ==
  /\ RRKind(iso, rr) = "invalid"
  /\ rr' = RRStep(iso, rr)
  /\ UNCHANGED <<iso, ld, pn, gr, rd, fh, cb, mn, th>>

RR_OutOfImage ==
  /\ RRKind(iso, rr) = "oob"
  /\ rr' = RRStep(iso, rr)
  /\ UNCHANGED <<iso, ld, pn, gr, rd, fh, cb, mn, th>>

RR_SP ==
  /\ RRKind(iso, rr) = "SP"
  /\ rr' = RRStep(iso, rr)
  /\ UNCHANGED <<iso, ld, pn, gr, rd, fh, cb, mn, th>>

RR_CE ==
  /\ RRKind(iso, rr) = "CE"
  /\ rr' = RRStep(iso, rr)
  /\ UNCHANGED <<iso, ld, pn, gr, rd, fh, cb, mn, th>>

RR_PX ==
  /\ RRKind(iso, rr) = "PX"
  /\ rr' = RRStep(iso, rr)
  /\ UNCHANGED <<iso, ld, pn, gr, rd, fh, cb, mn, th>>

RR_NM ==
  /\ RRKind(iso, rr) = "NM"
  /\ rr' = RRStep(iso, rr)
  /\ UNCHANGED <<iso, ld, pn, gr, rd, fh, cb, mn, th>>

RR_TF ==
  /\ RRKind(iso, rr) = "TF"
  /\ rr' = RRStep(iso, rr)
  /\ UNCHANGED <<iso, ld, pn, gr, rd, fh, cb, mn, th>>

RR_Ignored ==
  /\ RRKind(iso, rr) = "other"
  /\ rr' = RRStep(iso, rr)
  /\ UNCHANGED <<iso, ld, pn, gr, rd, fh, cb, mn, th>>

RR_Again ==
  /\ RRKind(iso, rr) = "again"
  /\ rr' = RRStep(iso, rr)
  /\ UNCHANGED <<iso, ld, pn, gr, rd, fh, cb, mn, th>>

InitRR ==
  /\ iso \in RRImages
  /\ rr = RRStart(RRRecAt)
  /\ ld = Idle /\ pn = Idle /\ gr = Idle /\ rd = Idle /\ fh = Idle
  /\ cb = Idle /\ mn = Idle /\ th = Idle

NextRR ==
  \/ RR_Entry
  \/ RR_EndOfArea
  \/ RR_Invalid
  \/ RR_OutOfImage
  \/ RR_SP
  \/ RR_CE
  \/ RR_PX
  \/ RR_NM
  \/ RR_TF
  \/ RR_Ignored
  \/ RR_Again

SpecRR == InitRR /\ [][NextRR]_vars

(* C4: read_rock_ridge_data reads only bytes inside the image: no read at  *)
(* an index >= size and no write past rr->filename, the length of the      *)
(* system-use area is never a wrapped (negative) difference, and no PX, NM *)
(* or TF payload is read beyond its field's declared length or the current *)
(* buffer.                                                                 *)
C4_RockRidgeReadsInImage ==
  /\ rr.fault = ""
  /\ ~rr.length.wrapped
  /\ ~rr.overread

(* The record of the call has no system-use area.                          *)
RRNoSystemUse ==
  rr.pc = "done" /\ ~rr.invalid /\ rr.seen = {} /\ rr.offset = 0

(* C16: read_rock_ridge_data never fails, and when the record has no       *)
(* system-use area or a field of the area is refused by get_susp_field it  *)
(* returns with no RR_HAS_* flag set, the flags of the fields parsed       *)
(* before the refused one included.                                        *)
C16_InvalidAreaGivesNoAttributes ==
  /\ rr.pc \notin {"fault", "forever"}
  /\ (rr.pc = "done" /\ (rr.invalid \/ RRNoSystemUse)) => rr.flags = {}

(* C5: read_rock_ridge_data terminates: its loop never comes back to a     *)
(* loop head (data, offset, length) it has already passed, from where it   *)
(* would repeat itself without end.                                        *)
C5_RockRidgeTerminates == rr.pc # "forever"

---------------------------------------------------------------------------
(*                get_record_filename  (util.h:310-331)                    *)
---------------------------------------------------------------------------
(* The bytes of a path character, for strcmp against the names on disc.    *)
CharCode(c) ==
  CASE c = "/" -> 47 [] c = "." -> 46 [] c = "a" -> 97 [] c = "d" -> 100
    [] c = "x" -> 120 [] c = "R" -> 82 [] c = "E" -> 69 [] c = "A" -> 65
    [] c = "D" -> 68 [] c = "M" -> 77
CBytes(str) == [k \in 1..Len(str) |-> CharCode(str[k])]

Semicolon == 59
Period    == 46

(* strrchr(filename, ';') and the cut at it (util.h:325-326).              *)
StripVersion(name) ==
  LET S == {k \in 1..Len(name) : name[k] = Semicolon}
  IN  IF S = {} THEN name
      ELSE SubSeq(name, 1, (CHOOSE k \in S : \A j \in S : j <= k) - 1)

(* util.h:328-329, for a name that is not empty.                           *)
StripPeriod(name) ==
  IF name[Len(name)] = Period THEN SubSeq(name, 1, Len(name) - 1) ELSE name

FilenameResult(st, name) == [st |-> st, name |-> name]

(* The name written to filename[], with st = "ok".  Otherwise st is what   *)
(* went wrong: "oob" a read at an image index >= size, "smash" a write     *)
(* past rr.filename, "forever" a read_rock_ridge_data that does not        *)
(* return, "underflow" the read of filename[-1] (util.h:329 with an empty  *)
(* name).                                                                  *)
FilenameOf(im, rec, r) ==
  IF r.pc = "forever" THEN FilenameResult("forever", <<>>)
  ELSE IF r.pc = "fault" THEN FilenameResult(r.fault, <<>>)
  ELSE IF "FILENAME" \in r.flags THEN FilenameResult("ok", r.filename)
  ELSE IF rec + RecFilename >= im.size THEN FilenameResult("oob", <<>>)
  ELSE IF Byte(im, rec + RecFilename) = 0 THEN FilenameResult("ok", <<Period>>)
  ELSE IF Byte(im, rec + RecFilename) = 1
    THEN FilenameResult("ok", <<Period, Period>>)
  ELSE LET n   == Byte(im, rec + RecFilenameLength)
           cut == StripVersion(Strncpy(im, rec + RecFilename, n))
       IN  IF rec + RecFilename + StrnRead(im, rec + RecFilename, n) > im.size
             THEN FilenameResult("oob", <<>>)
           ELSE IF cut = <<>> THEN FilenameResult("underflow", <<>>)
           ELSE FilenameResult("ok", StripPeriod(cut))

GetRecordFilename(im, rec) == FilenameOf(im, rec, ReadRockRidgeData(im, rec))

---------------------------------------------------------------------------
(*        get_record (isofs.c:138-199), isofs_readdir (isofs.c:438-469)    *)
---------------------------------------------------------------------------
RootRecord(im) == im.pvd + PvdRootRecord
ExtentLocation(im, rec) == LE32(im, rec + RecExtentLocation)
ExtentLength(im, rec)   == LE32(im, rec + RecExtentLength)
IsDirectory(im, rec) == HasBit(Byte(im, rec + RecFileFlags), FILE_DIRECTORY)

(* uint32_t start_pos = extent_location * logical_block_size (isofs.c:151).*)
StartPos(im, dir) == U32Mul(ExtentLocation(im, dir), BlockSize(im))

(* start_pos + extent_length > iso->size, the sum in uint32_t              *)
(* (isofs.c:152).                                                          *)
ExtentOutOfRange(im, dir) ==
  LET sum == U32Add(StartPos(im, dir), ExtentLength(im, dir))
  IN  ~U32Small(sum) \/ U32Index(sum) > im.size

(* offset < extent_length (isofs.c:163, 448); offset stays below 2^31 on   *)
(* the images of the model.                                                *)
WalkCond(im, dir, offset) ==
  ~U32Small(ExtentLength(im, dir)) \/ offset < U32Index(ExtentLength(im, dir))

(* &iso->raw[offset + start_pos], the sum in uint32_t (isofs.c:172, 175).  *)
RecordAt(start, offset) == U32Index(U32Add(start, U32Of(offset)))

(* isofs.c:171-176 and 459-465: the advance past the record at rec, given  *)
(* the length byte read at the next position.  "fpe" is the division by a  *)
(* logical block size of 0.                                                *)
WalkAdvance(im, start, offset, rec, nextlen) ==
  LET off1 == offset + Byte(im, rec)
      B    == BlockSize(im)
  IN  IF nextlen # 0
        THEN [kind |-> "next", offset |-> off1, rec |-> RecordAt(start, off1)]
      ELSE IF B = 0
        THEN [kind |-> "fpe", offset |-> off1, rec |-> RecordAt(start, off1)]
      ELSE [kind |-> "skip", offset |-> ((off1 \div B) + 1) * B,
            rec |-> RecordAt(start, ((off1 \div B) + 1) * B)]

(* The position whose length byte the advance reads.                       *)
NextPosition(im, start, offset, rec) == RecordAt(start, offset + Byte(im, rec))

(* The outcomes of reading a byte at an index >= size: the process is      *)
(* killed, or the read yields the zero fill after the end of the mapping.  *)
PastEndOutcomes == {"segv", "zero"}

(* The state of one get_record call.  trail is history: the records        *)
(* matched so far.  fault: "oob" a read at an index >= size, "fpe" a       *)
(* division by zero, or what went wrong in get_record_filename; pastend: a *)
(* read at an index >= size that went through.                             *)
GrInit(path) ==
  [pc |-> "entry", path |-> path, names |-> <<>>, count |-> 0,
   trailing_slash |-> FALSE, i |-> 0, dir |-> 0, start |-> U32Of(0),
   offset |-> 0, rec |-> 0, filename |-> <<>>, found |-> FALSE,
   errno |-> OK, ret |-> 0, fault |-> "", pastend |-> FALSE, trail |-> <<>>]

(* isofs.c:143: the path is "/".                                           *)
GetRecord_Root ==
  /\ gr.pc = "entry"
  /\ gr.path = <<"/">>
  /\ gr' = [gr EXCEPT !.pc = "returned", !.ret = RootRecord(iso)]
  /\ UNCHANGED <<iso, ld, pn, rd, rr, fh, cb, mn, th>>

(* isofs.c:146-147: get_path_names fails; errno is the one it set.         *)
GetRecord_BadPath ==
  /\ gr.pc = "entry"
  /\ gr.path # <<"/">>
  /\ GetPathNames(gr.path).pc = "failed"
  /\ gr' = [gr EXCEPT !.pc = "failed", !.errno = GetPathNames(gr.path).errno]
  /\ UNCHANGED <<iso, ld, pn, rd, rr, fh, cb, mn, th>>

(* isofs.c:142-149: the walk starts at the root record with i = 0.         *)
GetRecord_Begin ==
  /\ gr.pc = "entry"
  /\ gr.path # <<"/">>
  /\ GetPathNames(gr.path).pc = "done"
  /\ gr' = [gr EXCEPT !.pc = "level",
                      !.names = [k \in 1..GetPathNames(gr.path).count |->
                                    CBytes(GetPathNames(gr.path).names[k])],
                      !.count = GetPathNames(gr.path).count,
                      !.trailing_slash = GetPathNames(gr.path).trailing_slash,
                      !.i = 0, !.dir = RootRecord(iso)]
  /\ UNCHANGED <<iso, ld, pn, rd, rr, fh, cb, mn, th>>

(* isofs.c:152-156: the extent check fails.                                *)
GetRecord_ExtentOutOfRange ==
  /\ gr.pc = "level"
  /\ gr.i < gr.count
  /\ ExtentOutOfRange(iso, gr.dir)
  /\ gr' = [gr EXCEPT !.pc = "failed", !.errno = EINVAL]
  /\ UNCHANGED <<iso, ld, pn, rd, rr, fh, cb, mn, th>>

(* isofs.c:160-162: the walk of curr_dir starts.                           *)
GetRecord_EnterDir ==
  /\ gr.pc = "level"
  /\ gr.i < gr.count
  /\ ~ExtentOutOfRange(iso, gr.dir)
  /\ gr' = [gr EXCEPT !.pc = "walk", !.start = StartPos(iso, gr.dir),
                      !.offset = 0, !.found = FALSE,
                      !.rec = U32Index(StartPos(iso, gr.dir))]
  /\ UNCHANGED <<iso, ld, pn, rd, rr, fh, cb, mn, th>>

(* The walk after get_record_filename: filename[] holds the name, or the   *)
(* call went wrong.                                                        *)
WalkNamed(s, fn) ==
  IF fn.st = "ok" THEN [s EXCEPT !.pc = "named", !.filename = fn.name]
  ELSE [s EXCEPT !.pc = "fault", !.fault = fn.st]

(* isofs.c:163-166: the loop goes on; get_record_filename.                 *)
GetRecord_Filename ==
  /\ gr.pc = "walk"
  /\ WalkCond(iso, gr.dir, gr.offset)
  /\ gr' = WalkNamed(gr, GetRecordFilename(iso, gr.rec))
  /\ UNCHANGED <<iso, ld, pn, rd, rr, fh, cb, mn, th>>

(* isofs.c:167: strcmp finds the name equal to names[i].                   *)
GetRecord_Match ==
  /\ gr.pc = "named"
  /\ gr.filename = gr.names[gr.i + 1]
  /\ gr' = [gr EXCEPT !.pc = "after", !.found = TRUE]
  /\ UNCHANGED <<iso, ld, pn, rd, rr, fh, cb, mn, th>>

GrNoMatch ==
  /\ gr.pc = "named"
  /\ gr.filename # gr.names[gr.i + 1]

GrAdvance(nextlen) == WalkAdvance(iso, gr.start, gr.offset, gr.rec, nextlen)
GrNextPosition == NextPosition(iso, gr.start, gr.offset, gr.rec)

(* isofs.c:171-173: the next record has a length.                          *)
GetRecord_Next ==
  /\ GrNoMatch
  /\ GrNextPosition < iso.size
  /\ GrAdvance(Byte(iso, GrNextPosition)).kind = "next"
  /\ gr' = [gr EXCEPT !.pc = "walk",
                      !.offset = GrAdvance(Byte(iso, GrNextPosition)).offset,
                      !.rec = GrAdvance(Byte(iso, GrNextPosition)).rec]
  /\ UNCHANGED <<iso, ld, pn, rd, rr, fh, cb, mn, th>>

(* isofs.c:173-176: the next length byte is 0: to the next sector.         *)
GetRecord_SkipSector ==
  /\ GrNoMatch
  /\ GrNextPosition < iso.size
  /\ GrAdvance(Byte(iso, GrNextPosition)).kind = "skip"
  /\ gr' = [gr EXCEPT !.pc = "walk",
                      !.offset = GrAdvance(Byte(iso, GrNextPosition)).offset,
                      !.rec = GrAdvance(Byte(iso, GrNextPosition)).rec]
  /\ UNCHANGED <<iso, ld, pn, rd, rr, fh, cb, mn, th>>

(* isofs.c:174: offset / logical_block_size with a block size of 0.        *)
GetRecord_DivByZero ==
  /\ GrNoMatch
  /\ GrNextPosition < iso.size
  /\ GrAdvance(Byte(iso, GrNextPosition)).kind = "fpe"
  /\ gr' = [gr EXCEPT !.pc = "fault", !.fault = "fpe"]
  /\ UNCHANGED <<iso, ld, pn, rd, rr, fh, cb, mn, th>>

(* isofs.c:172-173: the next length byte lies at an index >= size.         *)
GetRecord_NextPastEnd ==
  /\ GrNoMatch
  /\ GrNextPosition >= iso.size
  /\ \E outcome \in PastEndOutcomes :
       gr' = IF outcome = "segv"
               THEN [gr EXCEPT !.pc = "fault", !.fault = "oob"]
             ELSE IF GrAdvance(0).kind = "fpe"
               THEN [gr EXCEPT !.pc = "fault", !.fault = "fpe", !.pastend = TRUE]
             ELSE [gr EXCEPT !.pc = "walk", !.offset = GrAdvance(0).offset,
                             !.rec = GrAdvance(0).rec, !.pastend = TRUE]
  /\ UNCHANGED <<iso, ld, pn, rd, rr, fh, cb, mn, th>>

(* isofs.c:163, 180-184: the extent is exhausted without a match.          *)
GetRecord_NotFound ==
  /\ gr.pc = "walk"
  /\ ~WalkCond(iso, gr.dir, gr.offset)
  /\ gr' = [gr EXCEPT !.pc = "failed", !.errno = ENOENT]
  /\ UNCHANGED <<iso, ld, pn, rd, rr, fh, cb, mn, th>>

(* The test of isofs.c:187 without its trailing_slash disjunct.            *)
NotDirCond_NoTrailingSlash(im, g) ==
  g.i # g.count - 1 /\ ~IsDirectory(im, g.rec)

(* isofs.c:187: (i != count - 1 || trailing_slash) && !(file_flags &       *)
(* FILE_DIRECTORY).                                                        *)
NotDirCond(im, g) ==
  (g.i # g.count - 1 \/ g.trailing_slash) /\ ~IsDirectory(im, g.rec)

(* isofs.c:187-191.                                                        *)
GetRecord_NotDir ==
  /\ gr.pc = "after"
  /\ NotDirCond(iso, gr)
  /\ gr' = [gr EXCEPT !.pc = "failed", !.errno = ENOTDIR,
                      !.trail = Append(@, gr.rec)]
  /\ UNCHANGED <<iso, ld, pn, rd, rr, fh, cb, mn, th>>

(* isofs.c:193, 149: curr_dir = curr_record; i++.                          *)
GetRecord_Descend ==
  /\ gr.pc = "after"
  /\ ~NotDirCond(iso, gr)
  /\ gr' = [gr EXCEPT !.pc = "level", !.dir = gr.rec, !.i = @ + 1,
                      !.trail = Append(@, gr.rec)]
  /\ UNCHANGED <<iso, ld, pn, rd, rr, fh, cb, mn, th>>

(* isofs.c:149, 197-198: every name is matched.                            *)
GetRecord_Return ==
  /\ gr.pc = "level"
  /\ gr.i = gr.count
  /\ gr' = [gr EXCEPT !.pc = "returned", !.ret = gr.rec]
  /\ UNCHANGED <<iso, ld, pn, rd, rr, fh, cb, mn, th>>

(* The state of one isofs_readdir call on the handle dir; names are the    *)
(* names passed to filler, in order.                                       *)
RdInit(dir, start) ==
  [pc |-> "walk", dir |-> dir, start |-> start, offset |-> 0,
   rec |-> U32Index(start), filename |-> <<>>, names |-> <<>>, ret |-> OK,
   fault |-> "", pastend |-> FALSE]

ENOMEM == "ENOMEM"

(* isofs_opendir (isofs.c:398-411) on the record get_record returned, with *)
(* access granted, then isofs.c:442-447.                                   *)
Readdir_Open ==
  /\ gr.pc = "returned"
  /\ rd = Idle
  /\ IsDirectory(iso, gr.ret)
  /\ rd' = RdInit(gr.ret, StartPos(iso, gr.ret))
  /\ UNCHANGED <<iso, ld, pn, gr, rr, fh, cb, mn, th>>

(* isofs.c:448-451: the loop goes on; get_record_filename.                 *)
Readdir_Filename ==
  /\ rd.pc = "walk"
  /\ WalkCond(iso, rd.dir, rd.offset)
  /\ rd' = WalkNamed(rd, GetRecordFilename(iso, rd.rec))
  /\ UNCHANGED <<iso, ld, pn, gr, rr, fh, cb, mn, th>>

(* isofs.c:452-454: filler reports a full buffer.                          *)
Readdir_Full ==
  /\ rd.pc = "named"
  /\ rd' = [rd EXCEPT !.pc = "returned", !.ret = ENOMEM]
  /\ UNCHANGED <<iso, ld, pn, gr, rr, fh, cb, mn, th>>

(* isofs.c:452: filler takes the name.                                     *)
RdFilled == rd.pc = "named"

RdAdvance(nextlen) == WalkAdvance(iso, rd.start, rd.offset, rd.rec, nextlen)
RdNextPosition == NextPosition(iso, rd.start, rd.offset, rd.rec)

(* isofs.c:451-462: a name is passed on; the next record has a length.     *)
Readdir_Next ==
  /\ RdFilled
  /\ RdNextPosition < iso.size
  /\ RdAdvance(Byte(iso, RdNextPosition)).kind = "next"
  /\ rd' = [rd EXCEPT !.pc = "walk", !.names = Append(@, rd.filename),
                      !.offset = RdAdvance(Byte(iso, RdNextPosition)).offset,
                      !.rec = RdAdvance(Byte(iso, RdNextPosition)).rec]
  /\ UNCHANGED <<iso, ld, pn, gr, rr, fh, cb, mn, th>>

(* isofs.c:451-465: a name is passed on; the next length byte is 0.        *)
Readdir_SkipSector ==
  /\ RdFilled
  /\ RdNextPosition < iso.size
  /\ RdAdvance(Byte(iso, RdNextPosition)).kind = "skip"
  /\ rd' = [rd EXCEPT !.pc = "walk", !.names = Append(@, rd.filename),
                      !.offset = RdAdvance(Byte(iso, RdNextPosition)).offset,
                      !.rec = RdAdvance(Byte(iso, RdNextPosition)).rec]
  /\ UNCHANGED <<iso, ld, pn, gr, rr, fh, cb, mn, th>>

(* isofs.c:463 with a logical block size of 0.                             *)
Readdir_DivByZero ==
  /\ RdFilled
  /\ RdNextPosition < iso.size
  /\ RdAdvance(Byte(iso, RdNextPosition)).kind = "fpe"
  /\ rd' = [rd EXCEPT !.names = Append(@, rd.filename), !.pc = "fault",
                      !.fault = "fpe"]
  /\ UNCHANGED <<iso, ld, pn, gr, rr, fh, cb, mn, th>>

(* isofs.c:460-462: the next length byte lies at an index >= size.         *)
Readdir_NextPastEnd ==
  /\ RdFilled
  /\ RdNextPosition >= iso.size
  /\ \E outcome \in PastEndOutcomes :
       rd' = IF outcome = "segv"
               THEN [rd EXCEPT !.names = Append(@, rd.filename), !.pc = "fault",
                               !.fault = "oob"]
             ELSE IF RdAdvance(0).kind = "fpe"
               THEN [rd EXCEPT !.names = Append(@, rd.filename), !.pc = "fault",
                               !.fault = "fpe", !.pastend = TRUE]
             ELSE [rd EXCEPT !.pc = "walk", !.names = Append(@, rd.filename),
                             !.offset = RdAdvance(0).offset,
                             !.rec = RdAdvance(0).rec, !.pastend = TRUE]
  /\ UNCHANGED <<iso, ld, pn, gr, rr, fh, cb, mn, th>>

(* isofs.c:448, 468.                                                       *)
Readdir_Done ==
  /\ rd.pc = "walk"
  /\ ~WalkCond(iso, rd.dir, rd.offset)
  /\ rd' = [rd EXCEPT !.pc = "returned", !.ret = OK]
  /\ UNCHANGED <<iso, ld, pn, gr, rr, fh, cb, mn, th>>

---------------------------------------------------------------------------
(*      get_record and isofs_readdir on small images                       *)
---------------------------------------------------------------------------
(* The images: a primary volume descriptor in block 16; the root directory *)
(* in block 18 holding ".", "..", the file README and the directory d;     *)
(* the file data in block 19; d in block 20 holding ".", ".." and a file   *)
(* whose Rock Ridge name is "a".                                           *)
MaxParts == 2

RootBlock == 18
DataBlock == RootBlock + 1
SubBlock  == RootBlock + 2
DataLen   == 5
WalkBlock == DescStride
FarExtent == FarLength

NameREADME == <<82, 69, 65, 68, 77, 69, 46, 59, 49>>
NameA      == <<65, 46, 59, 49>>

DirRecord(name, loc, len) ==
  RecordBytes(RecFilename + 1, loc, len, FILE_DIRECTORY, 1, name, <<>>)

FileRecord(name, su) ==
  RecordBytes(RecFilename + Len(name) + (1 - (Len(name) % 2)) + Len(su),
              U32Of(DataBlock), U32Of(DataLen), 0, Len(name), name, su)

RootRecords(rootLoc, rootLen, subLen) ==
  DirRecord(<<0>>, rootLoc, rootLen) \o DirRecord(<<1>>, rootLoc, rootLen)
    \o FileRecord(NameREADME, <<>>)
    \o DirRecord(<<100>>, U32Of(SubBlock), subLen)

SubRecords(rootLoc, rootLen, subLen) ==
  DirRecord(<<0>>, U32Of(SubBlock), subLen) \o DirRecord(<<1>>, rootLoc, rootLen)
    \o FileRecord(NameA, FieldNM)

SubFill == Len(SubRecords(U32Of(0), U32Of(0), U32Of(0)))

WalkImage(B, rootLoc, rootLen, subLen, size) ==
  [size |-> size, pvd |-> DescStart,
   bytes |->
     Place(DescStart, <<VD_PRIMARY, 67, 68, 48, 48, 49, 1>>)
       @@ Place(DescStart + PvdLogicalBlockSize, Enc16(B))
       @@ Place(DescStart + PvdRootRecord, DirRecord(<<0>>, rootLoc, rootLen))
       @@ Place(RootBlock * WalkBlock, RootRecords(rootLoc, rootLen, subLen))
       @@ Place(DataBlock * WalkBlock, <<104, 101, 108, 108, 111>>)
       @@ Place(SubBlock * WalkBlock, SubRecords(rootLoc, rootLen, subLen))]

(* The root extent: well formed; with a blank first sector; of a length    *)
(* that makes start_pos + extent_length pass 2^32; past the image.         *)
RootExtents ==
  {<<U32Of(RootBlock), U32Of(WalkBlock)>>,
   <<U32Of(RootBlock - 1), U32Of(2 * WalkBlock)>>,
   <<U32Of(RootBlock), [hi |-> 65535, lo |-> 65535]>>,
   <<U32Of(RootBlock), U32Of(FarExtent)>>}

(* The extent of d and the image size: a full block; records that end with *)
(* the image; a block that the image cuts short.                           *)
SubExtents ==
  {<<U32Of(WalkBlock), (SubBlock + 1) * WalkBlock>>,
   <<U32Of(SubFill), SubBlock * WalkBlock + SubFill>>,
   <<U32Of(WalkBlock), SubBlock * WalkBlock + SubFill>>}

WalkImages ==
  {WalkImage(B, r[1], r[2], d[1], d[2]) :
      B \in {WalkBlock, 0}, r \in RootExtents, d \in SubExtents}

WalkNames == {<<"R", "E", "A", "D", "M", "E">>, <<"d">>, <<"a">>, <<".">>, <<"x">>}

WalkPaths ==
  {JoinParts(q) \o t : q \in SeqsUpTo(WalkNames, MaxParts), t \in {<<>>, <<"/">>}}
    \cup {<<"a">>, <<"/", "/">>}

InitWalk ==
  /\ iso \in WalkImages
  /\ gr \in {GrInit(p) : p \in WalkPaths}
  /\ rd = Idle
  /\ ld = Idle /\ pn = Idle /\ rr = Idle /\ fh = Idle
  /\ cb = Idle /\ mn = Idle /\ th = Idle

NextWalk ==
  \/ GetRecord_Root
  \/ GetRecord_BadPath
  \/ GetRecord_Begin
  \/ GetRecord_ExtentOutOfRange
  \/ GetRecord_EnterDir
  \/ GetRecord_Filename
  \/ GetRecord_Match
  \/ GetRecord_Next
  \/ GetRecord_SkipSector
  \/ GetRecord_DivByZero
  \/ GetRecord_NextPastEnd
  \/ GetRecord_NotFound
  \/ GetRecord_NotDir
  \/ GetRecord_Descend
  \/ GetRecord_Return
  \/ Readdir_Open
  \/ Readdir_Filename
  \/ Readdir_Full
  \/ Readdir_Next
  \/ Readdir_SkipSector
  \/ Readdir_DivByZero
  \/ Readdir_NextPastEnd
  \/ Readdir_Done

SpecWalk == InitWalk /\ [][NextWalk]_vars

(* extent_location * B + extent_length <= size, in the integers.           *)
ExtentInImage(im, rec) ==
  LET loc == ExtentLocation(im, rec)
      len == ExtentLength(im, rec)
      B   == BlockSize(im)
  IN  /\ U32Small(len)
      /\ U32Index(len) <= im.size
      /\ B # 0 => /\ loc.hi = 0
                  /\ loc.lo <= im.size \div B
                  /\ loc.lo * B + U32Index(len) <= im.size

(* C3: a directory is walked only after its extent is found to lie inside  *)
(* the image, and no walk reads a byte at an index >= size, the length     *)
(* byte of the next record included.                                       *)
C3_WalkReadsInImage ==
  /\ gr.fault # "oob" /\ ~gr.pastend
  /\ gr.pc = "walk" => ExtentInImage(iso, gr.dir)
  /\ rd.pc # "idle" =>
        /\ rd.fault # "oob" /\ ~rd.pastend
        /\ ExtentInImage(iso, rd.dir)

(* C6: the directory walk never divides by a logical block size of 0, and  *)
(* so never stops short of the end of its loop.                            *)
C6_WalkTerminates ==
  /\ gr.fault # "fpe"
  /\ rd.pc # "idle" => rd.fault # "fpe"

(* The children of a directory: the records of non-zero length met from    *)
(* offset 0 on, a zero length moving the offset to the next multiple of B. *)
RECURSIVE ChildrenFrom(_, _, _, _)
ChildrenFrom(im, base, span, offset) ==
  IF offset >= span THEN <<>>
  ELSE IF Byte(im, base + offset) = 0
    THEN ChildrenFrom(im, base, span,
                      ((offset \div BlockSize(im)) + 1) * BlockSize(im))
  ELSE <<base + offset>>
         \o ChildrenFrom(im, base, span, offset + Byte(im, base + offset))

Children(im, dir) ==
  ChildrenFrom(im, ExtentLocation(im, dir).lo * BlockSize(im),
               U32Index(ExtentLength(im, dir)), 0)

EffectiveName(im, rec) == GetRecordFilename(im, rec).name

(* The first child of dir named name, or 0 when there is none.             *)
FirstChildNamed(im, dir, name) ==
  LET kids == Children(im, dir)
      M    == {k \in 1..Len(kids) : EffectiveName(im, kids[k]) = name}
  IN  IF M = {} THEN 0 ELSE kids[CHOOSE k \in M : \A j \in M : k <= j]

(* The descent along names[i..] from dir.                                  *)
RECURSIVE Resolve(_, _, _, _, _)
Resolve(im, names, trailing, dir, i) ==
  IF i > Len(names) THEN [st |-> OK, rec |-> dir]
  ELSE IF BlockSize(im) = 0 \/ ~ExtentInImage(im, dir)
    THEN [st |-> EINVAL, rec |-> 0]
  ELSE IF FirstChildNamed(im, dir, names[i]) = 0
    THEN [st |-> ENOENT, rec |-> 0]
  ELSE IF ~IsDirectory(im, FirstChildNamed(im, dir, names[i]))
          /\ (i < Len(names) \/ trailing)
    THEN [st |-> ENOTDIR, rec |-> 0]
  ELSE Resolve(im, names, trailing, FirstChildNamed(im, dir, names[i]), i + 1)

GrResolved == Resolve(iso, gr.names, gr.trailing_slash, RootRecord(iso), 1)

(* C7: get_record returns the record reached by taking, at each level, the *)
(* first child whose effective filename equals the component, and fails    *)
(* with ENOENT exactly when some level has no such child.                  *)
C7_ResolveSelectsFirstChild ==
  (gr.count > 0 /\ GrResolved.st # EINVAL) =>
    /\ gr.pc = "returned" => (GrResolved.st = OK /\ GrResolved.rec = gr.ret)
    /\ gr.pc = "failed" => (gr.errno = ENOENT <=> GrResolved.st = ENOENT)

---------------------------------------------------------------------------
(*      check_access, isofs_access, isofs_opendir, isofs_open              *)
(*      (isofs.c:206-235, 363-380, 393-409, 502-529)                       *)
---------------------------------------------------------------------------
(* The access(2) mask bits and the open(2) access modes.                   *)
F_OK == 0
X_OK == 1
W_OK == 2
R_OK == 4
O_RDONLY == 0
O_WRONLY == 1
O_RDWR   == 2

EACCES == "EACCES"
EROFS  == "EROFS"
EISDIR == "EISDIR"

(* The file-type and execute bits of a mode.                               *)
S_IFDIR == 16384
S_IFREG == 32768
S_IXUSR == 64
S_IXGRP == 8
S_IXOTH == 1

(* a & b, from the bit of weight w upwards.                                *)
RECURSIVE BitAndFrom(_, _, _)
BitAndFrom(a, b, w) ==
  IF w > a \/ w > b THEN 0
  ELSE (IF HasBit(a, w) /\ HasBit(b, w) THEN w ELSE 0) + BitAndFrom(a, b, 2 * w)

BitAnd(a, b) == BitAndFrom(a, b, 1)

(* isofs.c:212-217: strncpy, strrchr, the removal of one trailing slash    *)
(* and the cut after the last slash left.  LastSlash is 0 for no slash.    *)
LastSlash(p) ==
  LET S == {k \in 1..Len(p) : p[k] = "/"}
  IN  IF S = {} THEN 0 ELSE CHOOSE k \in S : \A j \in S : j <= k

ParentStripped(p) ==
  IF LastSlash(p) # 0 /\ LastSlash(p) = Len(p) THEN SubSeq(p, 1, Len(p) - 1) ELSE p

HasParent_None(p) == FALSE

HasParent(p) == LastSlash(ParentStripped(p)) # 0

ParentOf(p) == SubSeq(ParentStripped(p), 1, LastSlash(ParentStripped(p)))

(* isofs.c:225-227: the caller of the request against the process that     *)
(* serves the image; c carries uid, gid (fuse_get_context) and huid, hgid  *)
(* (getuid, getgid).                                                       *)
IsRoot(c) == c.uid = 0
IsUser(c) == c.uid = c.huid
IsGrp(c)  == c.gid = c.hgid

(* isofs.c:233: the shift that selects the three bits of the class.        *)
AccessShift_GroupAsOther(c) == IF IsUser(c) THEN 64 ELSE 1

AccessShift(c) == IF IsUser(c) THEN 64 ELSE IF IsGrp(c) THEN 8 ELSE 1

(* isofs.c:231-233: access, for the Rock Ridge data r of the record; the   *)
(* mode is shifted as a 32-bit value and only its low three bits are used  *)
(* (isofs.c:234).                                                          *)
AccessBits(im, rec, r, c) ==
  IF "STAT" \notin r.flags THEN (IF IsDirectory(im, rec) THEN 5 ELSE 4)
  ELSE IF IsRoot(c)
       THEN (IF BitAnd(r.mode.lo, S_IXUSR + S_IXGRP + S_IXOTH) # 0 THEN 7 ELSE 6)
       ELSE (r.mode.lo \div AccessShift(c)) % 8

(* isofs.c:234.                                                            *)
AccessGranted(access, mask) == BitAnd(BitAnd(access, 7), mask) = mask


(* One activation of check_access: its arguments and where it stands:      *)
(* "entry", "parent" (get_record(parent) is running), "wait" (the          *)
(* recursive call is running), "own" (the parent granted X), "denied".     *)
Frame(rec, null, path, mask) ==
  [record |-> rec, null |-> null, path |-> path, mask |-> mask, pc |-> "entry"]

(* The state of one callback: the operation and its arguments, the         *)
(* credentials, the activations of check_access (innermost first), and     *)
(* the outcome.  checks is history: the checks of a record itself that     *)
(* were made, each with the locals it used.                                *)
CbInit(op, path, arg, cred) ==
  [pc |-> "entry", op |-> op, path |-> path, arg |-> arg,
   uid |-> cred[1], gid |-> cred[2], huid |-> cred[3], hgid |-> cred[4],
   record |-> 0, stack |-> <<>>, granted |-> FALSE, ret |-> OK,
   fh |-> [set |-> FALSE], stat |-> [set |-> FALSE], fault |-> "",
   checks |-> {}]

CbMask(c) == IF c.op = "access" THEN c.arg ELSE R_OK

(* isofs.c:368: access with W_OK in the mask.                              *)
Access_ReadOnly ==
  /\ cb.pc = "entry" /\ cb.op = "access"
  /\ BitAnd(cb.arg, W_OK) # 0
  /\ cb' = [cb EXCEPT !.pc = "done", !.ret = EROFS]
  /\ UNCHANGED <<iso, ld, pn, gr, rd, rr, fh, mn, th>>

(* isofs.c:507: open for writing.                                          *)
Open_WriteDenied ==
  /\ cb.pc = "entry" /\ cb.op = "open"
  /\ BitAnd(cb.arg, O_RDWR) # 0 \/ BitAnd(cb.arg, O_WRONLY) # 0
  /\ cb' = [cb EXCEPT !.pc = "done", !.ret = EACCES]
  /\ UNCHANGED <<iso, ld, pn, gr, rd, rr, fh, mn, th>>

(* isofs.c:373, 399, 511: record = get_record(iso, path).                  *)
Callback_Resolve ==
  /\ cb.pc = "entry"
  /\ cb.op = "access" => BitAnd(cb.arg, W_OK) = 0
  /\ cb.op = "open" => BitAnd(cb.arg, O_RDWR) = 0 /\ BitAnd(cb.arg, O_WRONLY) = 0
  /\ cb' = [cb EXCEPT !.pc = "resolve"]
  /\ gr' = GrInit(cb.path)
  /\ UNCHANGED <<iso, ld, pn, rd, rr, fh, mn, th>>

(* isofs.c:374, 401, 513: no record: -errno.                               *)
Callback_NoRecord ==
  /\ cb.pc = "resolve" /\ gr.pc = "failed"
  /\ cb' = [cb EXCEPT !.pc = "done", !.ret = gr.errno]
  /\ UNCHANGED <<iso, ld, pn, gr, rd, rr, fh, mn, th>>

(* isofs.c:377: access with F_OK.                                          *)
Access_Exists ==
  /\ cb.pc = "resolve" /\ gr.pc = "returned"
  /\ cb.op = "access" /\ cb.arg = F_OK
  /\ cb' = [cb EXCEPT !.pc = "done", !.ret = OK, !.record = gr.ret]
  /\ UNCHANGED <<iso, ld, pn, gr, rd, rr, fh, mn, th>>

(* isofs.c:403: opendir of a record that is no directory.                  *)
Opendir_NotDir ==
  /\ cb.pc = "resolve" /\ gr.pc = "returned"
  /\ cb.op = "opendir" /\ ~IsDirectory(iso, gr.ret)
  /\ cb' = [cb EXCEPT !.pc = "done", !.ret = ENOTDIR, !.record = gr.ret]
  /\ UNCHANGED <<iso, ld, pn, gr, rd, rr, fh, mn, th>>

(* isofs.c:515: open of a directory.                                       *)
Open_IsDir ==
  /\ cb.pc = "resolve" /\ gr.pc = "returned"
  /\ cb.op = "open" /\ IsDirectory(iso, gr.ret)
  /\ cb' = [cb EXCEPT !.pc = "done", !.ret = EISDIR, !.record = gr.ret]
  /\ UNCHANGED <<iso, ld, pn, gr, rd, rr, fh, mn, th>>

(* isofs.c:378, 404, 516: the call check_access(iso, record, path, mask).  *)
Callback_CheckAccess ==
  /\ cb.pc = "resolve" /\ gr.pc = "returned"
  /\ cb.op \in {"access", "opendir", "open"}
  /\ cb.op = "access" => cb.arg # F_OK
  /\ cb.op = "opendir" => IsDirectory(iso, gr.ret)
  /\ cb.op = "open" => ~IsDirectory(iso, gr.ret)
  /\ cb' = [cb EXCEPT !.pc = "check", !.record = gr.ret,
                      !.stack = <<Frame(gr.ret, FALSE, cb.path, CbMask(cb))>>]
  /\ UNCHANGED <<iso, ld, pn, gr, rd, rr, fh, mn, th>>

(* isofs.c:211-218: the path has a parent: get_record(iso, parent).        *)
CheckAccess_Parent ==
  /\ cb.pc = "check" /\ cb.stack # <<>>
  /\ Head(cb.stack).pc = "entry"
  /\ HasParent(Head(cb.stack).path)
  /\ cb' = [cb EXCEPT !.stack[1].pc = "parent"]
  /\ gr' = GrInit(ParentOf(Head(cb.stack).path))
  /\ UNCHANGED <<iso, ld, pn, rd, rr, fh, mn, th>>

(* isofs.c:218: the recursive call on what get_record returned, NULL       *)
(* included.                                                               *)
CheckAccess_Recurse ==
  /\ cb.pc = "check" /\ cb.stack # <<>>
  /\ Head(cb.stack).pc = "parent"
  /\ gr.pc \in {"returned", "failed"}
  /\ cb' = [cb EXCEPT !.stack =
              <<Frame(gr.ret, gr.pc = "failed", ParentOf(Head(cb.stack).path), X_OK)>>
                \o <<[Head(cb.stack) EXCEPT !.pc = "wait"]>> \o Tail(cb.stack)]
  /\ UNCHANGED <<iso, ld, pn, gr, rd, rr, fh, mn, th>>

(* The return of one activation with value res to its caller               *)
(* (isofs.c:218-221) or to the callback.                                   *)
CheckAccessReturn(c, res) ==
  IF Len(c.stack) = 1
  THEN [c EXCEPT !.pc = "checked", !.granted = res, !.stack = <<>>]
  ELSE [c EXCEPT !.stack =
          <<[c.stack[2] EXCEPT !.pc = IF res THEN "own" ELSE "denied"]>>
            \o SubSeq(c.stack, 3, Len(c.stack))]

(* isofs.c:224-234 with r the result of read_rock_ridge_data: the check of *)
(* the record itself.  A NULL record is dereferenced at isofs.c:228.       *)
CheckAccessOwn(im, c, r) ==
  LET f      == Head(c.stack)
      access == AccessBits(im, f.record, r, c)
      res    == AccessGranted(access, f.mask)
      d      == [c EXCEPT !.checks = @ \cup
                   {[path |-> f.path, record |-> f.record, mask |-> f.mask,
                     stat |-> "STAT" \in r.flags, mode |-> r.mode, uid |-> r.uid,
                     gid |-> r.gid, is_dir |-> IsDirectory(im, f.record),
                     is_root |-> IsRoot(c), is_user |-> IsUser(c),
                     is_grp |-> IsGrp(c), access |-> access, result |-> res]}]
  IN  IF f.null \/ r.pc # "done"
      THEN [c EXCEPT !.pc = "fault", !.fault = IF f.null THEN "null" ELSE r.pc]
      ELSE CheckAccessReturn(d, res)

CheckAccess_Own ==
  /\ cb.pc = "check" /\ cb.stack # <<>>
  /\ \/ Head(cb.stack).pc = "own"
     \/ Head(cb.stack).pc = "entry" /\ ~HasParent(Head(cb.stack).path)
  /\ cb' = CheckAccessOwn(iso, cb, ReadRockRidgeData(iso, Head(cb.stack).record))
  /\ UNCHANGED <<iso, ld, pn, gr, rd, rr, fh, mn, th>>

(* isofs.c:218-221: the parent refused X: return false.                    *)
CheckAccess_ParentDenied ==
  /\ cb.pc = "check" /\ cb.stack # <<>>
  /\ Head(cb.stack).pc = "denied"
  /\ cb' = CheckAccessReturn(cb, FALSE)
  /\ UNCHANGED <<iso, ld, pn, gr, rd, rr, fh, mn, th>>

(* isofs.c:378, 404, 516: -EACCES.                                         *)
Callback_Denied ==
  /\ cb.pc = "checked" /\ ~cb.granted
  /\ cb' = [cb EXCEPT !.pc = "done", !.ret = EACCES]
  /\ UNCHANGED <<iso, ld, pn, gr, rd, rr, fh, mn, th>>

(* isofs.c:379.                                                            *)
Access_Granted ==
  /\ cb.pc = "checked" /\ cb.granted /\ cb.op = "access"
  /\ cb' = [cb EXCEPT !.pc = "done", !.ret = OK]
  /\ UNCHANGED <<iso, ld, pn, gr, rd, rr, fh, mn, th>>

(* isofs.c:407-408: the record is the handle.                              *)
Opendir_Handle ==
  /\ cb.pc = "checked" /\ cb.granted /\ cb.op = "opendir"
  /\ cb' = [cb EXCEPT !.pc = "done", !.ret = OK,
                      !.fh = [set |-> TRUE, record |-> cb.record]]
  /\ UNCHANGED <<iso, ld, pn, gr, rd, rr, fh, mn, th>>

(* isofs.c:519-520: malloc fails.                                          *)
Open_NoMemory ==
  /\ cb.pc = "checked" /\ cb.granted /\ cb.op = "open"
  /\ cb' = [cb EXCEPT !.pc = "done", !.ret = ENOMEM]
  /\ UNCHANGED <<iso, ld, pn, gr, rd, rr, fh, mn, th>>

(* The handle with the extent location taken for a byte offset.            *)
OpenHandle_NoScale(im, rec) ==
  [set |-> TRUE, data |-> ExtentLocation(im, rec), size |-> ExtentLength(im, rec)]

(* isofs.c:519-528: the handle: data = &raw[extent_location * B] with the  *)
(* product taken in 32 bits, size = extent_length.                         *)
OpenHandle(im, rec) ==
  [set |-> TRUE, data |-> U32Mul(ExtentLocation(im, rec), BlockSize(im)),
   size |-> ExtentLength(im, rec)]

Open_Handle ==
  /\ cb.pc = "checked" /\ cb.granted /\ cb.op = "open"
  /\ cb' = [cb EXCEPT !.pc = "done", !.ret = OK, !.fh = OpenHandle(iso, cb.record)]
  /\ UNCHANGED <<iso, ld, pn, gr, rd, rr, fh, mn, th>>


---------------------------------------------------------------------------
(*      The callbacks on small images with Rock Ridge permissions          *)
---------------------------------------------------------------------------
(* The uid and gid of the PX fields, and another id.                       *)
OwnerId == 1000
OtherId == OwnerId + 1

Perm(u, g, o) == (u * S_IXUSR) + (g * S_IXGRP) + o

(* A PX field without inode for the mode, owned by OwnerId; no field for   *)
(* mode 0.                                                                 *)
FieldPXOf(mode) ==
  IF mode = 0 THEN <<>>
  ELSE <<80, 88, 36, 1>> \o Both32(mode) \o Both32(1)
         \o Both32(OwnerId) \o Both32(OwnerId)

DirRecordSU(name, loc, len, su) ==
  RecordBytes(RecFilename + 1 + Len(su), loc, len, FILE_DIRECTORY, 1, name, su)

(* The images of the walk, well formed, with the file README and the file  *)
(* a of d carrying the mode fm and the directory d the mode dm.            *)
AccessImage(fm, dm) ==
  LET root == U32Of(RootBlock)
      one  == U32Of(WalkBlock)
  IN  [size |-> (SubBlock + 1) * WalkBlock, pvd |-> DescStart,
       bytes |->
         Place(DescStart, <<VD_PRIMARY, 67, 68, 48, 48, 49, 1>>)
           @@ Place(DescStart + PvdLogicalBlockSize, Enc16(WalkBlock))
           @@ Place(DescStart + PvdRootRecord, DirRecord(<<0>>, root, one))
           @@ Place(RootBlock * WalkBlock,
                    DirRecord(<<0>>, root, one) \o DirRecord(<<1>>, root, one)
                      \o FileRecord(NameREADME, FieldPXOf(fm))
                      \o DirRecordSU(<<100>>, U32Of(SubBlock), one, FieldPXOf(dm)))
           @@ Place(DataBlock * WalkBlock, <<104, 101, 108, 108, 111>>)
           @@ Place(SubBlock * WalkBlock,
                    DirRecord(<<0>>, U32Of(SubBlock), one)
                      \o DirRecord(<<1>>, root, one)
                      \o FileRecord(NameA, FieldNM \o FieldPXOf(fm)))]

FileModes == {0, S_IFREG + Perm(6, 0, 0), S_IFREG + Perm(6, 4, 0),
              S_IFREG + Perm(7, 0, 5)}
DirModes  == {0, S_IFDIR + Perm(7, 5, 5), S_IFDIR + Perm(6, 0, 0)}

AccessImages == {AccessImage(fm, dm) : fm \in FileModes, dm \in DirModes}

(* The caller (uid, gid) and the serving process (uid, gid); main refuses  *)
(* to serve as root (isofs.c:613).                                         *)
Credentials ==
  {<<c[1], c[2], h, h>> :
     c \in {<<0, 0>>, <<OwnerId, OwnerId>>, <<OtherId, OwnerId>>, <<OtherId, OtherId>>},
     h \in {OwnerId, OtherId}}

AccessMasks == {F_OK, X_OK, W_OK, R_OK, R_OK + X_OK}

Calls ==
  {<<"access", m>> : m \in AccessMasks} \cup {<<"opendir", 0>>}
    \cup {<<"open", f>> : f \in {O_RDONLY, O_WRONLY, O_RDWR}}

PathREADME == <<"/", "R", "E", "A", "D", "M", "E">>
PathD      == <<"/", "d">>
PathDA     == <<"/", "d", "/", "a">>

(* A path of MaxNames + 1 components, each the name of the directory d.    *)
PathDeep == JoinParts([i \in 1..(MaxNames + 1) |-> <<"d">>])

AccessPaths ==
  {<<"/">>, PathREADME, PathD, PathD \o <<"/">>, PathDA, <<"/", "x">>,
   PathREADME \o <<"/", "x">>, PathDeep}

InitAccess ==
  /\ iso \in AccessImages
  /\ cb \in {CbInit(k[1], p, k[2], c) : k \in Calls, p \in AccessPaths, c \in Credentials}
  /\ gr = Idle
  /\ ld = Idle /\ pn = Idle /\ rd = Idle /\ rr = Idle /\ fh = Idle
  /\ mn = Idle /\ th = Idle

NextAccess ==
  \/ Access_ReadOnly
  \/ Open_WriteDenied
  \/ Callback_Resolve
  \/ GetRecord_Root
  \/ GetRecord_BadPath
  \/ GetRecord_Begin
  \/ GetRecord_EnterDir
  \/ GetRecord_Filename
  \/ GetRecord_Match
  \/ GetRecord_Next
  \/ GetRecord_SkipSector
  \/ GetRecord_NotFound
  \/ GetRecord_NotDir
  \/ GetRecord_Descend
  \/ GetRecord_Return
  \/ Callback_NoRecord
  \/ Access_Exists
  \/ Opendir_NotDir
  \/ Open_IsDir
  \/ Callback_CheckAccess
  \/ CheckAccess_Parent
  \/ CheckAccess_Recurse
  \/ CheckAccess_Own
  \/ CheckAccess_ParentDenied
  \/ Callback_Denied
  \/ Access_Granted
  \/ Opendir_Handle
  \/ Open_NoMemory
  \/ Open_Handle

SpecAccess == InitAccess /\ [][NextAccess]_vars

(* C11: for a record with a PX field, check_access takes the caller as the *)
(* owner exactly when the caller's uid is the PX uid and as of the group   *)
(* exactly when the caller's gid is the PX gid; and a caller with uid and  *)
(* gid OtherId is refused R on a record of mode 0600 owned by OwnerId,     *)
(* whoever serves the image.                                               *)
C11_OwnerByRecordIds ==
  \A k \in cb.checks :
    (k.stat /\ ~k.is_root) =>
      /\ k.is_user <=> (U32Of(cb.uid) = k.uid)
      /\ k.is_grp <=> (U32Of(cb.gid) = k.gid)
      /\ (k.mode.lo % 512 = Perm(6, 0, 0) /\ k.uid = U32Of(OwnerId)
            /\ k.gid = U32Of(OwnerId) /\ cb.uid = OtherId /\ cb.gid = OtherId
            /\ k.mask = R_OK) => ~k.result

(* The effective bits as a function of the class the check used.           *)
ModeBits(mode, from) == (mode.lo \div from) % 8

EffectiveBits(k) ==
  IF ~k.stat THEN (IF k.is_dir THEN 5 ELSE 4)
  ELSE IF k.is_root
    THEN (IF \E w \in {S_IXUSR, S_IXGRP, S_IXOTH} : HasBit(k.mode.lo, w) THEN 7 ELSE 6)
  ELSE IF k.is_user THEN ModeBits(k.mode, S_IXUSR)
  ELSE IF k.is_grp THEN ModeBits(k.mode, S_IXGRP)
  ELSE ModeBits(k.mode, S_IXOTH)

(* C12: the check of the record itself grants the mask exactly when every  *)
(* bit of the mask is in the effective bits of the caller's class: 5 for a *)
(* directory and 4 for a file without PX; with PX 7 or 6 for root, mode    *)
(* bits 6-8 for the owner, 3-5 for the group, 0-2 for others; root on a    *)
(* mode of 0600 is granted R and refused X.                                *)
C12_EffectiveBitsByClass ==
  \A k \in cb.checks :
    /\ k.result <=> (\A w \in {X_OK, W_OK, R_OK} :
                       HasBit(k.mask, w) => HasBit(EffectiveBits(k), w))
    /\ (k.stat /\ k.is_root /\ k.mode.lo % 512 = Perm(6, 0, 0)) =>
         /\ k.mask = R_OK => k.result
         /\ k.mask = X_OK => ~k.result

(* Root has been refused X on the directory d of mode 0600.                *)
C12_Witness ==
  \E k \in cb.checks :
    /\ k.stat /\ k.is_root /\ k.is_dir /\ k.mode.lo % 512 = Perm(6, 0, 0)
    /\ k.mask = X_OK /\ ~k.result

(* The ancestors of a path: its proper prefixes that end with a slash,     *)
(* one trailing slash of the path set aside.                               *)
Ancestors(p) ==
  LET q == IF Len(p) > 0 /\ p[Len(p)] = "/" THEN SubSeq(p, 1, Len(p) - 1) ELSE p
  IN  {SubSeq(q, 1, j) : j \in {i \in 1..Len(q) : q[i] = "/"}}

(* C13: check_access grants only if every ancestor of the path, from / to  *)
(* the parent, has granted X; no check is made on anything but the path    *)
(* and its ancestors (none for /); a refusal by an ancestor makes the      *)
(* callback fail with EACCES and leave no handle.                          *)
C13_AncestorsGrantExecute ==
  cb.pc \in {"checked", "done"} =>
    /\ cb.granted =>
         \A a \in Ancestors(cb.path) :
           \E k \in cb.checks : k.path = a /\ k.mask = X_OK /\ k.result
    /\ \A k \in cb.checks : k.path = cb.path \/ k.path \in Ancestors(cb.path)
    /\ (\E k \in cb.checks : ~k.result) =>
         /\ ~cb.granted
         /\ cb.pc = "done" => (cb.ret = EACCES /\ ~cb.fh.set)

(* open of /d/a has failed with EACCES because d refused X, while the file *)
(* a itself grants R to the caller.                                        *)
C13_Witness ==
  /\ cb.pc = "done" /\ cb.op = "open" /\ cb.path = PathDA /\ cb.ret = EACCES
  /\ \E k \in cb.checks : k.path = PathD \o <<"/">> /\ k.mask = X_OK /\ ~k.result
  /\ AccessGranted(AccessBits(iso, cb.record,
                              ReadRockRidgeData(iso, cb.record), cb), R_OK)


(* What a path leads to: the error of the split, or the descent from the   *)
(* root by the first child named as each component.                        *)
RefRecord(im, p) ==
  LET n == GetPathNames(p)
  IN  IF n.pc = "failed" THEN [st |-> n.errno, rec |-> 0]
      ELSE Resolve(im, [k \in 1..n.count |-> CBytes(n.names[k])],
                   n.trailing_slash, RootRecord(im), 1)

(* The caller has the mask on the record the path leads to, and X on the   *)
(* record every ancestor of the path leads to.                             *)
RefOwn(im, c, rec, mask) ==
  AccessGranted(AccessBits(im, rec, ReadRockRidgeData(im, rec), c), mask)

RefPermitted(im, c, p, mask) ==
  /\ RefOwn(im, c, RefRecord(im, p).rec, mask)
  /\ \A a \in Ancestors(p) : RefOwn(im, c, RefRecord(im, a).rec, X_OK)

OpenWrites(c) == HasBit(c.arg, O_WRONLY) \/ HasBit(c.arg, O_RDWR)

(* The outcome of an open that has returned, the errors of a path that     *)
(* does not resolve being those of the set errs.                           *)
OpenOutcome(errs) ==
  (cb.op = "open" /\ cb.pc = "done") =>
    LET t == RefRecord(iso, cb.path) IN
    /\ cb.fh.set <=> cb.ret = OK
    /\ IF OpenWrites(cb) THEN cb.ret = EACCES
       ELSE IF t.st # OK THEN cb.ret = t.st /\ cb.ret \in errs
       ELSE IF IsDirectory(iso, t.rec) THEN cb.ret = EISDIR
       ELSE IF ~RefPermitted(iso, cb, cb.path, R_OK) THEN cb.ret = EACCES
       ELSE /\ cb.ret \in {OK, ENOMEM}
            /\ cb.ret = OK =>
                 /\ cb.fh.size = ExtentLength(iso, t.rec)
                 /\ cb.fh.data = U32Of(ExtentLocation(iso, t.rec).lo * BlockSize(iso))

---------------------------------------------------------------------------
(*      convert_datetime, isofs_getattr  (util.h:101-114, isofs.c:305-353) *)
---------------------------------------------------------------------------
RecDatetime == 18

S_IRUSR == 256
S_IRGRP == 32
S_IROTH == 4

(* The days from 1970-01-01 to the day d of month m (1..12) of year y of   *)
(* the Gregorian calendar; d need not be a day of that month.              *)
DaysFromCivil(y, m, d) ==
  LET yy  == IF m <= 2 THEN y - 1 ELSE y
      mp  == IF m > 2 THEN m - 3 ELSE m + 9
      yoe == yy % 400
      doy == (((153 * mp) + 2) \div 5) + d - 1
  IN  ((yy \div 400) * 146097) + (yoe * 365) + (yoe \div 4) - (yoe \div 100)
        + doy - 719468

(* mktime of the broken-down time, in a process whose time zone is UTC: a  *)
(* time_t as days since the epoch and seconds of the day.  Fields out of   *)
(* range are carried over as mktime does.                                  *)
Mktime(year, mon, mday, hour, min, sec) ==
  LET s == (hour * 3600) + (min * 60) + sec
  IN  [days |-> DaysFromCivil(1900 + year + (mon \div 12), (mon % 12) + 1, mday)
                  + (s \div 86400),
       secs |-> s % 86400]

(* util.h:102-114: dt is the seven bytes of a datetime; the time zone byte *)
(* is not used.                                                            *)
ConvertDatetime(dt) == Mktime(dt[1], dt[2] - 1, dt[3], dt[4], dt[5], dt[6])

(* util.h:119-131 is applied to a long-form timestamp; its value is left   *)
(* as the call on the seventeen bytes.                                     *)
ConvertDecDatetime(dt) == [dec |-> dt]

(* util.h:273-274, 280-281, 287-288: the time_t stored for a timestamp.    *)
TimeOf(stamp) ==
  IF stamp.long THEN ConvertDecDatetime(stamp.bytes) ELSE ConvertDatetime(stamp.bytes)

RecordDatetime(im, rec) == [k \in 1..DatetimeLen |-> Byte(im, rec + RecDatetime + k - 1)]

(* st_blocks with the division rounding down.                              *)
StatBlocks_Floor(size) == (size.hi * 128) + (size.lo \div 512)

(* isofs.c:348: (st_size + 511) / 512 in 64 bits.                          *)
StatBlocks(size) == (size.hi * 128) + ((size.lo + 511) \div 512)

(* isofs.c:325-352 with r the result of read_rock_ridge_data.              *)
GetattrStat(im, rec, r, c) ==
  LET stat == "STAT" \in r.flags
      now  == ConvertDatetime(RecordDatetime(im, rec))
  IN  [set |-> TRUE,
       st_mode |-> IF stat THEN r.mode
                   ELSE IF IsDirectory(im, rec)
                     THEN U32Of(S_IFDIR + S_IRUSR + S_IXUSR + S_IRGRP + S_IXGRP
                                  + S_IROTH + S_IXOTH)
                     ELSE U32Of(S_IFREG + S_IRUSR + S_IRGRP + S_IROTH),
       st_nlink |-> IF stat THEN r.nlinks ELSE U32Of(1),
       st_uid |-> IF stat THEN r.uid ELSE U32Of(c.huid),
       st_gid |-> IF stat THEN r.gid ELSE U32Of(c.hgid),
       st_ino |-> IF "INO" \in r.flags THEN r.ino ELSE U32Of(1),
       st_mtime |-> IF "MODIFICATION" \in r.flags THEN TimeOf(r.modification) ELSE now,
       st_atime |-> IF "ACCESS" \in r.flags THEN TimeOf(r.access) ELSE now,
       st_ctime |-> IF "CREATION" \in r.flags THEN TimeOf(r.creation) ELSE now,
       st_size |-> ExtentLength(im, rec),
       st_blocks |-> StatBlocks(ExtentLength(im, rec)),
       st_rdev |-> 0]

GetattrFill(im, c, rec, r) ==
  IF r.pc # "done" THEN [c EXCEPT !.pc = "fault", !.fault = r.pc, !.record = rec]
  ELSE [c EXCEPT !.pc = "done", !.ret = OK, !.record = rec,
                 !.stat = GetattrStat(im, rec, r, c)]

(* isofs.c:312-352: the record was found.                                  *)
Getattr_Fill ==
  /\ cb.pc = "resolve" /\ gr.pc = "returned"
  /\ cb.op = "getattr"
  /\ cb' = GetattrFill(iso, cb, gr.ret, ReadRockRidgeData(iso, gr.ret))
  /\ UNCHANGED <<iso, ld, pn, gr, rd, rr, fh, mn, th>>

(* The images: the file README and the directory d of the root, with a     *)
(* date each and a system-use area each.                                   *)
DateFile == <<124, 2, 29, 23, 59, 58, 0>>
DateDir  == <<99, 12, 31, 0, 0, 0, 0>>
DateTF   == <<120, 1, 1, 12, 0, 0, 0>>

WithDate(rec, dt) ==
  [i \in 1..Len(rec) |->
     IF i > RecDatetime /\ i <= RecDatetime + DatetimeLen
     THEN dt[i - RecDatetime] ELSE rec[i]]

FieldPXFull(len) ==
  SubSeq(<<80, 88, len, 1>> \o Both32(RRMode) \o Both32(2) \o Both32(OwnerId)
           \o Both32(OwnerId + 2) \o Both32(7), 1, len)

(* A short-form TF field with the timestamps its flags announce.           *)
FieldTFOf(flags) ==
  LET n == (IF HasBit(flags, SUSP_TF_CREATION) THEN 1 ELSE 0)
             + (IF HasBit(flags, SUSP_TF_MODIFICATION) THEN 1 ELSE 0)
             + (IF HasBit(flags, SUSP_TF_ACCESS) THEN 1 ELSE 0)
  IN  <<84, 70, SuspLenTF + (n * DatetimeLen), 1, flags>>
        \o Concat([k \in 1..n |-> [DateTF EXCEPT ![6] = k]])

GetattrSystemUses ==
  {<<>>, FieldPXFull(PxStatEnd + SuspHeaderLen), FieldPXFull(SuspLenPX),
   FieldTFOf(SUSP_TF_MODIFICATION) \o FieldST,
   FieldTFOf(SUSP_TF_CREATION + SUSP_TF_ACCESS) \o FieldST,
   FieldPXFull(SuspLenPX) \o FieldNM
     \o FieldTFOf(SUSP_TF_CREATION + SUSP_TF_MODIFICATION + SUSP_TF_ACCESS)
     \o FieldST,
   FieldTFOf(SUSP_TF_MODIFICATION)}

FileSizes == {U32Of(0), U32Of(DataLen), U32Of(WalkBlock), [hi |-> 1, lo |-> 1]}

GetattrImage(su, len) ==
  LET root == U32Of(RootBlock)
      one  == U32Of(WalkBlock)
  IN  [size |-> (SubBlock + 1) * WalkBlock, pvd |-> DescStart,
       bytes |->
         Place(DescStart, <<VD_PRIMARY, 67, 68, 48, 48, 49, 1>>)
           @@ Place(DescStart + PvdLogicalBlockSize, Enc16(WalkBlock))
           @@ Place(DescStart + PvdRootRecord,
                    WithDate(DirRecord(<<0>>, root, one), DateDir))
           @@ Place(RootBlock * WalkBlock,
                    DirRecord(<<0>>, root, one) \o DirRecord(<<1>>, root, one)
                      \o WithDate(RecordBytes(RecFilename + Len(NameREADME) + Len(su),
                                              U32Of(DataBlock), len, 0,
                                              Len(NameREADME), NameREADME, su),
                                  DateFile)
                      \o WithDate(DirRecordSU(<<100>>, U32Of(SubBlock), one, su),
                                  DateDir))
           @@ Place(SubBlock * WalkBlock,
                    DirRecord(<<0>>, U32Of(SubBlock), one)
                      \o DirRecord(<<1>>, root, one))]

GetattrImages == {GetattrImage(su, len) : su \in GetattrSystemUses, len \in FileSizes}

GetattrPaths == {<<"/">>, PathREADME, PathD, <<"/", "x">>}

InitGetattr ==
  /\ iso \in GetattrImages
  /\ cb \in {CbInit("getattr", p, 0, <<OwnerId, OwnerId, h, h>>) :
               p \in GetattrPaths, h \in {OwnerId, OtherId}}
  /\ gr = Idle
  /\ ld = Idle /\ pn = Idle /\ rd = Idle /\ rr = Idle /\ fh = Idle
  /\ mn = Idle /\ th = Idle

NextGetattr ==
  \/ Callback_Resolve
  \/ GetRecord_Root
  \/ GetRecord_Begin
  \/ GetRecord_EnterDir
  \/ GetRecord_Filename
  \/ GetRecord_Match
  \/ GetRecord_Next
  \/ GetRecord_SkipSector
  \/ GetRecord_NotFound
  \/ GetRecord_Descend
  \/ GetRecord_Return
  \/ Callback_NoRecord
  \/ Getattr_Fill

SpecGetattr == InitGetattr /\ [][NextGetattr]_vars

(* The record of a finished getattr has no system-use area: its length is  *)
(* that of the fixed part, the name and the padding.                       *)
NoSystemUse(im, rec) ==
  LET fl == Byte(im, rec + RecFilenameLength)
  IN  Byte(im, rec) = RecFilename + fl + (1 - (fl % 2))

(* size = 512 * q + r with 0 <= r < 512: the least n with 512 * n >= size  *)
(* is q, or q + 1 when r > 0.                                              *)
CeilBlocks(size) ==
  ((size.hi * 65536) \div 512) + (size.lo \div 512)
    + (IF size.lo % 512 > 0 THEN 1 ELSE 0)

(* C15: getattr on a record without Rock Ridge data reports S_IFDIR|0555   *)
(* for a directory and S_IFREG|0444 for a file, nlinks 1, the uid and gid  *)
(* of the serving process, ino 1 and the converted record datetime in all  *)
(* three timestamps; the groups fall back one by one (no PX: mode, nlinks, *)
(* uid, gid; PX without inode: ino; timestamp not given by TF: that        *)
(* timestamp); size is extent_length and blocks is ceil(size / 512).       *)
C15_GetattrDefaults ==
  (cb.op = "getattr" /\ cb.pc = "done" /\ cb.ret = OK) =>
    LET r   == ReadRockRidgeData(iso, cb.record)
        s   == cb.stat
        dir == IsDirectory(iso, cb.record)
        now == ConvertDatetime(RecordDatetime(iso, cb.record))
    IN  /\ s.set
        /\ NoSystemUse(iso, cb.record) => r.flags = {}
        /\ "STAT" \notin r.flags =>
             /\ s.st_mode = U32Of((IF dir THEN S_IFDIR ELSE S_IFREG)
                                    + (IF dir THEN Perm(5, 5, 5) ELSE Perm(4, 4, 4)))
             /\ s.st_nlink = U32Of(1)
             /\ s.st_uid = U32Of(cb.huid) /\ s.st_gid = U32Of(cb.hgid)
        /\ "INO" \notin r.flags => s.st_ino = U32Of(1)
        /\ "MODIFICATION" \notin r.flags => s.st_mtime = now
        /\ "ACCESS" \notin r.flags => s.st_atime = now
        /\ "CREATION" \notin r.flags => s.st_ctime = now
        /\ s.st_size = ExtentLength(iso, cb.record)
        /\ s.st_blocks = CeilBlocks(s.st_size)

(* getattr of the file README without Rock Ridge data, of DataLen bytes,   *)
(* dated 2024-02-29 23:59:58, has returned mode 0100444, ino 1, one block  *)
(* and the time 19782 days and 86398 seconds after the epoch.              *)
C15_Witness ==
  /\ cb.op = "getattr" /\ cb.pc = "done" /\ cb.ret = OK
  /\ cb.path = PathREADME
  /\ NoSystemUse(iso, cb.record)
  /\ cb.stat.st_mode = U32Of(S_IFREG + Perm(4, 4, 4))
  /\ cb.stat.st_ino = U32Of(1)
  /\ cb.stat.st_size = U32Of(DataLen) /\ cb.stat.st_blocks = 1
  /\ cb.stat.st_mtime = [days |-> 19782, secs |-> 86398]

---------------------------------------------------------------------------
(*      Listing a directory and resolving each name listed                 *)
(*      (isofs.c:438-469 against isofs.c:138-199)                          *)
---------------------------------------------------------------------------
FILE_ADDL_RECORDS == 128

(* The character of a byte of a name.                                      *)
CharOf(b) ==
  CHOOSE c \in {"/", ".", "a", "d", "x", "R", "E", "A", "D", "M"} : CharCode(c) = b

(* The path of the entry called name in the directory of path dirpath.     *)
ChildPath(dirpath, name) ==
  (IF dirpath = <<"/">> THEN <<>> ELSE dirpath)
    \o <<"/">> \o [k \in 1..Len(name) |-> CharOf(name[k])]

(* A client that lists the directory at dirpath and, for a name readdir    *)
(* passes to filler, asks get_record for that name in the directory:       *)
(* target is the record the name was made from, asked how many names have  *)
(* been asked for, same whether every answer so far was the target.        *)
RtInit(dirpath) ==
  [pc |-> "list", dirpath |-> dirpath, name |-> <<>>, target |-> 0,
   at |-> 0 - 1, asked |-> 0, same |-> TRUE]

RoundTrip_Resolve ==
  /\ cb.pc = "list"
  /\ rd # Idle /\ rd.pc = "named"
  /\ rd.offset # cb.at
  /\ cb' = [cb EXCEPT !.pc = "resolve", !.name = rd.filename, !.target = rd.rec,
                      !.at = rd.offset]
  /\ gr' = GrInit(ChildPath(cb.dirpath, rd.filename))
  /\ UNCHANGED <<iso, ld, pn, rd, rr, fh, mn, th>>

RoundTrip_Compare ==
  /\ cb.pc = "resolve"
  /\ gr.pc \in {"returned", "failed", "fault"}
  /\ cb' = [cb EXCEPT !.pc = "list", !.asked = @ + 1,
                      !.same = @ /\ gr.pc = "returned" /\ gr.ret = cb.target]
  /\ UNCHANGED <<iso, ld, pn, gr, rd, rr, fh, mn, th>>

(* Valid images: the root directory in one sector or in two, the second    *)
(* sector holding the record of d; the file README in one section or in    *)
(* two, each section with its record (the first flagged as followed by     *)
(* another).                                                               *)
SectionRecord(flags) ==
  RecordBytes(RecFilename + Len(NameREADME), U32Of(DataBlock), U32Of(DataLen),
              flags, Len(NameREADME), NameREADME, <<>>)

RoundTripImage(sections, sectors) ==
  LET rootLoc == U32Of(RootBlock + 1 - sectors)
      rootLen == U32Of(sectors * WalkBlock)
      one     == U32Of(WalkBlock)
      files   == IF sections = 1 THEN SectionRecord(0)
                 ELSE SectionRecord(FILE_ADDL_RECORDS) \o SectionRecord(0)
      head    == DirRecord(<<0>>, rootLoc, rootLen) \o DirRecord(<<1>>, rootLoc, rootLen)
                   \o files
      d       == DirRecord(<<100>>, U32Of(SubBlock), one)
  IN  [size |-> (SubBlock + 1) * WalkBlock, pvd |-> DescStart,
       bytes |->
         Place(DescStart, <<VD_PRIMARY, 67, 68, 48, 48, 49, 1>>)
           @@ Place(DescStart + PvdLogicalBlockSize, Enc16(WalkBlock))
           @@ Place(DescStart + PvdRootRecord, DirRecord(<<0>>, rootLoc, rootLen))
           @@ (IF sectors = 1 THEN Place(RootBlock * WalkBlock, head \o d)
               ELSE Place((RootBlock - 1) * WalkBlock, head)
                      @@ Place(RootBlock * WalkBlock, d))
           @@ Place(DataBlock * WalkBlock, <<104, 101, 108, 108, 111>>)
           @@ Place(SubBlock * WalkBlock,
                    DirRecord(<<0>>, U32Of(SubBlock), one)
                      \o DirRecord(<<1>>, rootLoc, rootLen)
                      \o FileRecord(NameA, FieldNM))]

RoundTripImages ==
  {RoundTripImage(sections, sectors) : sections \in {1, 2}, sectors \in {1, 2}}

InitRoundTrip ==
  /\ iso \in RoundTripImages
  /\ \E dirpath \in {<<"/">>, PathD} :
       /\ cb = RtInit(dirpath)
       /\ gr = GrInit(dirpath)
  /\ rd = Idle
  /\ ld = Idle /\ pn = Idle /\ rr = Idle /\ fh = Idle /\ mn = Idle /\ th = Idle

NextRoundTrip ==
  \/ GetRecord_Root
  \/ GetRecord_Begin
  \/ GetRecord_EnterDir
  \/ GetRecord_Filename
  \/ GetRecord_Match
  \/ GetRecord_Next
  \/ GetRecord_SkipSector
  \/ GetRecord_Descend
  \/ GetRecord_Return
  \/ Readdir_Open
  \/ Readdir_Filename
  \/ Readdir_Next
  \/ Readdir_SkipSector
  \/ Readdir_Done
  \/ RoundTrip_Resolve
  \/ RoundTrip_Compare

SpecRoundTrip == InitRoundTrip /\ [][NextRoundTrip]_vars

(* C17: on a valid image every name readdir passes on for a directory,     *)
(* resolved by get_record as one component in that directory, gives the    *)
(* record the name was made from.                                          *)
C17_ListedNamesResolveToTheirRecord == cb.same

---------------------------------------------------------------------------
(*      get_record on a path and on the path normalised                    *)
(*      (isofs.c:138-199, util.h:55-97)                                    *)
---------------------------------------------------------------------------
(* The components of an absolute path: what lies between its slashes, the  *)
(* empty components included.                                              *)
RECURSIVE SplitAt(_, _, _)
SplitAt(p, i, cur) ==
  IF i > Len(p) THEN <<cur>>
  ELSE IF p[i] = "/" THEN <<cur>> \o SplitAt(p, i + 1, <<>>)
  ELSE SplitAt(p, i + 1, Append(cur, p[i]))

Components(p) == SplitAt(p, 2, <<>>)

RECURSIVE KeepParts(_)
KeepParts(q) ==
  IF q = <<>> THEN <<>>
  ELSE IF Head(q) = <<>> THEN KeepParts(Tail(q))
  ELSE IF Head(q) = <<".">> /\ KeepParts(Tail(q)) # <<>> THEN KeepParts(Tail(q))
  ELSE <<Head(q)>> \o KeepParts(Tail(q))

(* The path without duplicate slashes and without internal "." components; *)
(* one trailing slash stays.                                               *)
Normalize(p) ==
  LET kept == KeepParts(Components(p))
  IN  IF kept = <<>> THEN <<"/">>
      ELSE JoinParts(kept) \o (IF p[Len(p)] = "/" THEN <<"/">> ELSE <<>>)

(* What a finished get_record call gave: the record or the error.          *)
GrOutcome(g) ==
  IF g.pc = "returned" THEN [st |-> OK, rec |-> g.ret]
  ELSE IF g.pc = "failed" THEN [st |-> g.errno, rec |-> 0]
  ELSE [st |-> g.fault, rec |-> 0]

(* A client that calls get_record on a path and then on the normalised     *)
(* path.                                                                   *)
NormInit(path) ==
  [pc |-> "first", path |-> path, first |-> [st |-> OK, rec |-> 0],
   second |-> [st |-> OK, rec |-> 0]]

Normalize_Second ==
  /\ cb.pc = "first"
  /\ gr.pc \in {"returned", "failed", "fault"}
  /\ cb' = [cb EXCEPT !.pc = "second", !.first = GrOutcome(gr)]
  /\ gr' = GrInit(Normalize(cb.path))
  /\ UNCHANGED <<iso, ld, pn, rd, rr, fh, mn, th>>

Normalize_Compare ==
  /\ cb.pc = "second"
  /\ gr.pc \in {"returned", "failed", "fault"}
  /\ cb' = [cb EXCEPT !.pc = "compared", !.second = GrOutcome(gr)]
  /\ UNCHANGED <<iso, ld, pn, gr, rd, rr, fh, mn, th>>

(* The paths: a slash followed by up to MaxNormLen characters of           *)
(* {'/', '.', 'd', 'a'}, and /d/./a.                                       *)
MaxNormLen == 4

NormPaths ==
  {<<"/">> \o q : q \in SeqsUpTo({"/", ".", "d", "a"}, MaxNormLen)}
    \cup {<<"/", "d", "/", ".", "/", "a">>}

InitNormalize ==
  /\ iso = RoundTripImage(1, 1)
  /\ \E p \in NormPaths :
       /\ cb = NormInit(p)
       /\ gr = GrInit(p)
  /\ rd = Idle
  /\ ld = Idle /\ pn = Idle /\ rr = Idle /\ fh = Idle /\ mn = Idle /\ th = Idle

NextNormalize ==
  \/ GetRecord_Root
  \/ GetRecord_Begin
  \/ GetRecord_EnterDir
  \/ GetRecord_Filename
  \/ GetRecord_Match
  \/ GetRecord_Next
  \/ GetRecord_SkipSector
  \/ GetRecord_NotFound
  \/ GetRecord_NotDir
  \/ GetRecord_Descend
  \/ GetRecord_Return
  \/ Normalize_Second
  \/ Normalize_Compare

SpecNormalize == InitNormalize /\ [][NextNormalize]_vars

(* C18: get_record gives the same outcome, the same record or the same     *)
(* error, on a path and on the path normalised; so //d, /d//a and /./d     *)
(* behave like /d, /d/a and /d.                                            *)
C18_NormalizedPathResolvesAlike ==
  cb.pc = "compared" => cb.first = cb.second

---------------------------------------------------------------------------
(*      The callbacks on several threads  (isofs.c:276-556)                *)
---------------------------------------------------------------------------
(* Field offsets in a PrimaryVolumeDescriptor (iso.h:126-165).             *)
PvdVolumeSpaceSize == 80
PvdPathTableSize   == 132
PvdPathTableLoc    == 140

(* util.h:339-351: the entries counted from path_table_loc * B on, rel     *)
(* bytes into the table; offset and end are size_t.                        *)
RECURSIVE PathTableCount(_, _, _)
PathTableCount(im, start, rel) ==
  IF rel < U32Index(LE32(im, im.pvd + PvdPathTableSize)) /\ start + rel < im.size
  THEN 1 + PathTableCount(im, start,
                          rel + 8 + Byte(im, start + rel) + (Byte(im, start + rel) % 2))
  ELSE 0

GetNumberOfFiles(im) ==
  LET loc == LE32(im, im.pvd + PvdPathTableLoc)
  IN  IF BlockSize(im) = 0 THEN PathTableCount(im, 0, 0)
      ELSE IF loc.hi # 0 \/ loc.lo > im.size \div BlockSize(im) THEN 0
      ELSE PathTableCount(im, loc.lo * BlockSize(im), 0)

(* One callback running on a thread: the request (op, path, arg and the    *)
(* credentials of the fuse context), the locals, and what it returns: ret  *)
(* and the structure it fills (statv, stbuf, fi->fh, the names given to    *)
(* filler, buf).  pc is "entry", "found" or "failed" (get_record has       *)
(* returned), "done".                                                      *)
ThInit(op, path, arg, cred) ==
  [pc |-> "entry", op |-> op, path |-> path, arg |-> arg,
   uid |-> cred[1], gid |-> cred[2], huid |-> cred[3], hgid |-> cred[4],
   record |-> 0, ret |-> OK, out |-> [set |-> FALSE]]

(* errno is thread-local: the callback on thread t reads the errno that    *)
(* get_record set on thread t (isofs.c:313, 374, 401, 513).                *)
ErrnoCell_Shared(t) == 1

ErrnoCell(t) == t

(* isofs.c:368, 507: refused before the image is looked at.                *)
ThreadRefused(s) ==
  \/ s.op = "access" /\ BitAnd(s.arg, W_OK) # 0
  \/ s.op = "open" /\ (BitAnd(s.arg, O_RDWR) # 0 \/ BitAnd(s.arg, O_WRONLY) # 0)

ThreadRefuse(s) ==
  [s EXCEPT !.pc = "done", !.ret = IF s.op = "access" THEN EROFS ELSE EACCES]

(* isofs.c:279-294.                                                        *)
ThreadStatfs(im, s) ==
  [s EXCEPT !.pc = "done", !.ret = OK,
            !.out = [set |-> TRUE, f_bsize |-> BlockSize(im), f_frsize |-> BlockSize(im),
                     f_blocks |-> LE32(im, im.pvd + PvdVolumeSpaceSize),
                     f_files |-> GetNumberOfFiles(im),
                     f_bfree |-> 0, f_bavail |-> 0, f_ffree |-> 0]]

(* get_record (isofs.c:138-199) on an image whose directories lie inside   *)
(* it: the record, or NULL with errno set.                                 *)
ThreadLookup(s, g) ==
  IF g.st = OK THEN [s EXCEPT !.pc = "found", !.record = g.rec]
  ELSE [s EXCEPT !.pc = "failed"]

(* if (!record) { return -errno; } with e the errno read.                  *)
ThreadNoRecord(s, e) == [s EXCEPT !.pc = "done", !.ret = e]

(* check_access (isofs.c:206-235): X on the parent, recursively, then the  *)
(* record itself; a NULL record is dereferenced at isofs.c:228.            *)
RECURSIVE CheckAccess(_, _, _, _, _, _)
CheckAccessSelf(im, c, rec, null, mask, up) ==
  IF up = "denied" THEN "denied"
  ELSE IF up = "fault" \/ null THEN "fault"
  ELSE IF AccessGranted(AccessBits(im, rec, ReadRockRidgeData(im, rec), c), mask)
    THEN "granted"
  ELSE "denied"

CheckAccessUp(im, c, path, g) ==
  CheckAccess(im, c, g.rec, g.st # OK, path, X_OK)

CheckAccess(im, c, rec, null, path, mask) ==
  CheckAccessSelf(im, c, rec, null, mask,
                  IF HasParent(path)
                  THEN CheckAccessUp(im, c, ParentOf(path),
                                     RefRecord(im, ParentOf(path)))
                  ELSE "granted")

ThreadChecked(s, res, out) ==
  IF res = "fault" THEN [s EXCEPT !.pc = "done", !.ret = "fault"]
  ELSE IF res = "denied" THEN [s EXCEPT !.pc = "done", !.ret = EACCES]
  ELSE [s EXCEPT !.pc = "done", !.ret = OK, !.out = out]

(* isofs.c:325-352.                                                        *)
ThreadGetattr(im, s) ==
  [s EXCEPT !.pc = "done", !.ret = OK,
            !.out = GetattrStat(im, s.record, ReadRockRidgeData(im, s.record), s)]

(* isofs.c:377-379.                                                        *)
ThreadAccess(im, s) ==
  IF s.arg = F_OK THEN [s EXCEPT !.pc = "done", !.ret = OK]
  ELSE ThreadChecked(s, CheckAccess(im, s, s.record, FALSE, s.path, s.arg),
                     [set |-> FALSE])

(* isofs.c:402-408: fi->fh is the record.                                  *)
ThreadOpendir(im, s) ==
  IF ~IsDirectory(im, s.record) THEN [s EXCEPT !.pc = "done", !.ret = ENOTDIR]
  ELSE ThreadChecked(s, CheckAccess(im, s, s.record, FALSE, s.path, R_OK),
                     [set |-> TRUE, fh |-> s.record])

(* isofs.c:515-528, malloc giving the isofs_file.                          *)
ThreadOpen(im, s) ==
  IF IsDirectory(im, s.record) THEN [s EXCEPT !.pc = "done", !.ret = EISDIR]
  ELSE ThreadChecked(s, CheckAccess(im, s, s.record, FALSE, s.path, R_OK),
                     OpenHandle(im, s.record))

(* isofs.c:442-469 on the handle isofs_opendir gave for the path, filler   *)
(* taking every name: the effective names of the records of the extent.    *)
ReaddirNames(im, s, kids) ==
  [s EXCEPT !.pc = "done", !.ret = OK,
            !.out = [set |-> TRUE,
                     names |-> [k \in 1..Len(kids) |-> EffectiveName(im, kids[k])]]]

ThreadReaddir(im, s) == ReaddirNames(im, s, Children(im, RefRecord(im, s.path).rec))

(* isofs.c:549-555 on the handle isofs_open gave for the path; arg is      *)
(* <<offset, size>>.  buf holds the bytes copied.                          *)
ReadCopied(im, s, data, n) ==
  [s EXCEPT !.pc = "done", !.ret = n,
            !.out = [set |-> TRUE,
                     buf |-> [i \in 1..n |-> Byte(im, data + s.arg[1] + i - 1)]]]

ReadFrom(im, s, data, size) ==
  ReadCopied(im, s, data,
             IF ReadIsShort([size |-> size], s.arg[1], s.arg[2])
             THEN size - s.arg[1] ELSE s.arg[2])

ReadHandle(im, s, f) == ReadFrom(im, s, U32Index(f.data), U32Index(f.size))

ThreadRead(im, s) == ReadHandle(im, s, OpenHandle(im, RefRecord(im, s.path).rec))

(* The callback run from its entry to its return on a thread of its own.   *)
AloneFound(im, f, g) ==
  IF f.pc = "failed" THEN ThreadNoRecord(f, g.st)
  ELSE IF f.op = "getattr" THEN ThreadGetattr(im, f)
  ELSE IF f.op = "access" THEN ThreadAccess(im, f)
  ELSE IF f.op = "opendir" THEN ThreadOpendir(im, f)
  ELSE ThreadOpen(im, f)

AloneLookup(im, s, g) == AloneFound(im, ThreadLookup(s, g), g)

RunAlone(im, s) ==
  IF ThreadRefused(s) THEN ThreadRefuse(s)
  ELSE IF s.op = "statfs" THEN ThreadStatfs(im, s)
  ELSE IF s.op = "readdir" THEN ThreadReaddir(im, s)
  ELSE IF s.op = "read" THEN ThreadRead(im, s)
  ELSE AloneLookup(im, s, RefRecord(im, s.path))

(* The threads of the callback driver.                                     *)
NThreads == 2
Threads  == 1..NThreads

ThreadTo(t, s) ==
  /\ th' = [th EXCEPT !.run[t] = s]
  /\ UNCHANGED <<iso, ld, pn, gr, rd, rr, fh, cb, mn>>

Thread_Refuse ==
  \E t \in Threads :
    /\ th.run[t].pc = "entry" /\ ThreadRefused(th.run[t])
    /\ ThreadTo(t, ThreadRefuse(th.run[t]))

Thread_Statfs ==
  \E t \in Threads :
    /\ th.run[t].pc = "entry" /\ th.run[t].op = "statfs"
    /\ ThreadTo(t, ThreadStatfs(iso, th.run[t]))

Thread_Readdir ==
  \E t \in Threads :
    /\ th.run[t].pc = "entry" /\ th.run[t].op = "readdir"
    /\ ThreadTo(t, ThreadReaddir(iso, th.run[t]))

Thread_Read ==
  \E t \in Threads :
    /\ th.run[t].pc = "entry" /\ th.run[t].op = "read"
    /\ ThreadTo(t, ThreadRead(iso, th.run[t]))

(* get_record returns the record, or sets the errno of its thread.         *)
ThreadGetRecord(t, g) ==
  /\ th' = [th EXCEPT !.run[t] = ThreadLookup(th.run[t], g),
                      !.errno[ErrnoCell(t)] = IF g.st = OK THEN @ ELSE g.st]
  /\ UNCHANGED <<iso, ld, pn, gr, rd, rr, fh, cb, mn>>

Thread_GetRecord ==
  \E t \in Threads :
    /\ th.run[t].pc = "entry" /\ ~ThreadRefused(th.run[t])
    /\ th.run[t].op \in {"getattr", "access", "opendir", "open"}
    /\ ThreadGetRecord(t, RefRecord(iso, th.run[t].path))

Thread_NoRecord ==
  \E t \in Threads :
    /\ th.run[t].pc = "failed"
    /\ ThreadTo(t, ThreadNoRecord(th.run[t], th.errno[ErrnoCell(t)]))

Thread_Getattr ==
  \E t \in Threads :
    /\ th.run[t].pc = "found" /\ th.run[t].op = "getattr"
    /\ ThreadTo(t, ThreadGetattr(iso, th.run[t]))

Thread_Access ==
  \E t \in Threads :
    /\ th.run[t].pc = "found" /\ th.run[t].op = "access"
    /\ ThreadTo(t, ThreadAccess(iso, th.run[t]))

Thread_Opendir ==
  \E t \in Threads :
    /\ th.run[t].pc = "found" /\ th.run[t].op = "opendir"
    /\ ThreadTo(t, ThreadOpendir(iso, th.run[t]))

Thread_Open ==
  \E t \in Threads :
    /\ th.run[t].pc = "found" /\ th.run[t].op = "open"
    /\ ThreadTo(t, ThreadOpen(iso, th.run[t]))

(* The image: README of mode 0640 and the directory d of mode 0755, with a *)
(* path table of two entries in the block after d.                         *)
TableBlock == SubBlock + 1

ThreadImage ==
  LET im == AccessImage(S_IFREG + Perm(6, 4, 0), S_IFDIR + Perm(7, 5, 5))
  IN  [im EXCEPT
         !.size = (TableBlock + 1) * WalkBlock,
         !.bytes = Place(DescStart + PvdVolumeSpaceSize, Both32(TableBlock + 1))
                     @@ Place(DescStart + PvdPathTableSize, Both32(20))
                     @@ Place(DescStart + PvdPathTableLoc, Enc32(TableBlock))
                     @@ Place(TableBlock * WalkBlock,
                              <<1, 0>> \o Enc32(RootBlock) \o <<1, 0, 0, 0>>
                                \o <<1, 0>> \o Enc32(SubBlock) \o <<1, 0, 100, 0>>)
                     @@ @]

(* The requests the threads serve.                                         *)
Requests ==
  LET owner == <<OwnerId, OwnerId, OwnerId, OwnerId>>
      other == <<OtherId, OtherId, OwnerId, OwnerId>>
  IN  {ThInit("statfs", <<"/">>, 0, owner),
       ThInit("getattr", PathREADME, 0, owner),
       ThInit("getattr", <<"/", "x">>, 0, owner),
       ThInit("access", PathDA, R_OK, owner),
       ThInit("access", PathREADME, R_OK, other),
       ThInit("access", PathREADME \o <<"/", "x">>, X_OK, owner),
       ThInit("access", PathD, W_OK, owner),
       ThInit("opendir", PathD, 0, owner),
       ThInit("opendir", PathREADME, 0, owner),
       ThInit("readdir", <<"/">>, 0, owner),
       ThInit("open", PathREADME, O_RDONLY, owner),
       ThInit("open", PathD, O_RDONLY, owner),
       ThInit("open", PathREADME, O_WRONLY, owner),
       ThInit("read", PathREADME, <<1, 10>>, owner)}

(* th.loaded is the image as load_iso left it, th.asked the request of     *)
(* each thread.                                                            *)
InitThreads ==
  /\ iso = ThreadImage
  /\ \E f \in [Threads -> Requests] :
       th = [pc |-> "serving", run |-> f, asked |-> f,
             errno |-> [t \in Threads |-> OK], loaded |-> ThreadImage]
  /\ ld = Idle /\ pn = Idle /\ gr = Idle /\ rd = Idle /\ rr = Idle /\ fh = Idle
  /\ cb = Idle /\ mn = Idle

NextThreads ==
  \/ Thread_Refuse
  \/ Thread_Statfs
  \/ Thread_Readdir
  \/ Thread_Read
  \/ Thread_GetRecord
  \/ Thread_NoRecord
  \/ Thread_Getattr
  \/ Thread_Access
  \/ Thread_Opendir
  \/ Thread_Open

SpecThreads == InitThreads /\ [][NextThreads]_vars

ThreadResult(s) == [ret |-> s.ret, out |-> s.out]

---------------------------------------------------------------------------
(*                      main  (isofs.c:611-644)                            *)
---------------------------------------------------------------------------
NULL == "NULL"

(* The process at the entry of main: its real and effective uid, argc, and *)
(* whether argv[argc-2] and argv[argc-1] start with a hyphen.  iso is the  *)
(* local of main, driver what fuse_main was given as private data, calls   *)
(* the callbacks the driver has run and nullrun whether one of them ran    *)
(* with GET_ISO() NULL.                                                    *)
MnInit(uid, euid, argc, hyphen2, hyphen1) ==
  [pc |-> "entry", uid |-> uid, euid |-> euid, argc |-> argc,
   hyphen2 |-> hyphen2, hyphen1 |-> hyphen1, iso |-> "unset", load_failed |-> FALSE,
   started |-> FALSE, private_data |-> "unset", calls |-> 0, nullrun |-> FALSE,
   exit |-> "none"]

MainIsRoot(m) == m.uid = 0 \/ m.euid = 0

MainBadUsage(m) == m.argc < 3 \/ m.hyphen2 \/ m.hyphen1

(* isofs.c:613-616.                                                        *)
Main_Root ==
  /\ mn.pc = "entry"
  /\ MainIsRoot(mn)
  /\ mn' = [mn EXCEPT !.pc = "exited", !.exit = 1]
  /\ UNCHANGED <<iso, ld, pn, gr, rd, rr, fh, cb, th>>

(* isofs.c:627-630.                                                        *)
Main_Usage ==
  /\ mn.pc = "entry"
  /\ ~MainIsRoot(mn)
  /\ MainBadUsage(mn)
  /\ mn' = [mn EXCEPT !.pc = "exited", !.exit = 1]
  /\ UNCHANGED <<iso, ld, pn, gr, rd, rr, fh, cb, th>>

(* isofs.c:639 and isofs.c:67-81: load_iso is called and has mapped the    *)
(* file.                                                                   *)
Main_LoadIso ==
  /\ mn.pc = "entry"
  /\ ~MainIsRoot(mn) /\ ~MainBadUsage(mn)
  /\ mn' = [mn EXCEPT !.pc = "load"]
  /\ ld' = LdInit
  /\ UNCHANGED <<iso, pn, gr, rd, rr, fh, cb, th>>

(* isofs.c:639 and isofs.c:67-77: malloc, open, fstat or mmap fails and    *)
(* load_iso returns NULL.                                                  *)
Main_LoadIsoNoFile ==
  /\ mn.pc = "entry"
  /\ ~MainIsRoot(mn) /\ ~MainBadUsage(mn)
  /\ mn' = [mn EXCEPT !.pc = "loaded", !.iso = NULL, !.load_failed = TRUE]
  /\ UNCHANGED <<iso, ld, pn, gr, rd, rr, fh, cb, th>>

(* isofs.c:639: load_iso has returned, the ISO or NULL.                    *)
Main_Loaded ==
  /\ mn.pc = "load"
  /\ ld.pc \in {"loaded", "failed"}
  /\ mn' = [mn EXCEPT !.pc = "loaded",
                      !.iso = IF ld.pc = "loaded" THEN "ISO" ELSE NULL,
                      !.load_failed = (ld.pc = "failed")]
  /\ UNCHANGED <<iso, ld, pn, gr, rd, rr, fh, cb, th>>

(* isofs.c:642-643: umask(0); fuse_main(argc, argv, &isofs_oper, iso).     *)
Main_FuseMain ==
  /\ mn.pc = "loaded"
  /\ mn' = [mn EXCEPT !.pc = "serving", !.started = TRUE, !.private_data = mn.iso]
  /\ UNCHANGED <<iso, ld, pn, gr, rd, rr, fh, cb, th>>

(* The callbacks one run of the driver makes.                              *)
MaxCalls == 2

(* The driver runs a callback, which takes the ISO from GET_ISO()          *)
(* (isofs.c:47, 279).                                                      *)
Fuse_Callback ==
  /\ mn.pc = "serving"
  /\ mn.private_data # NULL
  /\ mn.calls < MaxCalls
  /\ mn' = [mn EXCEPT !.calls = @ + 1]
  /\ UNCHANGED <<iso, ld, pn, gr, rd, rr, fh, cb, th>>

(* The same with GET_ISO() NULL: the callback dereferences it              *)
(* (isofs.c:282), which ends the process or does not.                      *)
Fuse_CallbackNull ==
  /\ mn.pc = "serving"
  /\ mn.private_data = NULL
  /\ mn.calls < MaxCalls
  /\ \E pc \in {"serving", "fault"} :
       mn' = [mn EXCEPT !.pc = pc, !.calls = @ + 1, !.nullrun = TRUE]
  /\ UNCHANGED <<iso, ld, pn, gr, rd, rr, fh, cb, th>>

(* isofs.c:643: main returns what fuse_main returns.                       *)
Main_Return ==
  /\ mn.pc = "serving"
  /\ \E code \in {0, 1} : mn' = [mn EXCEPT !.pc = "exited", !.exit = code]
  /\ UNCHANGED <<iso, ld, pn, gr, rd, rr, fh, cb, th>>

(* The files: the images of the loader with at most two descriptors.       *)
MainImages == {im \in LoadImages : Len(im.descs) < MaxDesc}

MainProcesses ==
  {MnInit(0, 0, 3, FALSE, FALSE), MnInit(OwnerId, 0, 3, FALSE, FALSE),
   MnInit(OwnerId, OwnerId, 2, FALSE, FALSE), MnInit(OwnerId, OwnerId, 3, TRUE, FALSE),
   MnInit(OwnerId, OwnerId, 4, FALSE, TRUE), MnInit(OwnerId, OwnerId, 3, FALSE, FALSE),
   MnInit(OwnerId, OwnerId, 4, FALSE, FALSE)}

InitMain ==
  /\ iso \in MainImages
  /\ mn \in MainProcesses
  /\ ld = Idle
  /\ pn = Idle /\ gr = Idle /\ rd = Idle /\ rr = Idle /\ fh = Idle
  /\ cb = Idle /\ th = Idle

NextMain ==
  \/ Main_Root
  \/ Main_Usage
  \/ Main_LoadIso
  \/ Main_LoadIsoNoFile
  \/ LoadIso_BadHeader
  \/ LoadIso_Terminator
  \/ LoadIso_Advance
  \/ LoadIso_EndOfImage
  \/ LoadIso_Reject
  \/ LoadIso_Return
  \/ Main_Loaded
  \/ Main_FuseMain
  \/ Fuse_Callback
  \/ Fuse_CallbackNull
  \/ Main_Return

SpecMain == InitMain /\ [][NextMain]_vars

(* C20: when load_iso returns NULL the program exits with code 1 without   *)
(* starting the callback driver, so no callback runs with a null image:    *)
(* the driver is started only with a loaded image.                         *)
C20_DriverOnlyWithImage ==
  /\ mn.started => mn.private_data # NULL
  /\ ~mn.nullrun
  /\ (mn.pc = "exited" /\ mn.load_failed) => mn.exit = 1

---------------------------------------------------------------------------
(*      isofs_statfs and get_number_of_files                               *)
(*      (isofs.c:276-295, util.h:333-351)                                  *)
---------------------------------------------------------------------------
(* util.h:335-336: the number of files the count is said never to exceed.  *)
FileCountCap == 65536

(* The callback at the entry of get_number_of_files.  far says that        *)
(* path_table_loc * bs, a size_t, is beyond the image; otherwise start is  *)
(* that product and rel is offset - start.  last is the index of the byte  *)
(* read last and oob whether a byte at an index >= size was read.          *)
StInit ==
  [pc |-> "entry", op |-> "statfs", far |-> FALSE, start |-> 0, rel |-> 0,
   count |-> 0, last |-> 0, oob |-> FALSE, stat |-> [set |-> FALSE]]

PathTableFar(im) ==
  LET loc == LE32(im, im.pvd + PvdPathTableLoc)
  IN  BlockSize(im) # 0 /\ (loc.hi # 0 \/ loc.lo > im.size \div BlockSize(im))

(* util.h:341-344.                                                         *)
Statfs_Begin ==
  /\ cb.pc = "entry" /\ cb.op = "statfs"
  /\ cb' = [cb EXCEPT !.pc = "loop", !.far = PathTableFar(iso),
                      !.start = IF PathTableFar(iso) THEN 0
                                ELSE LE32(iso, iso.pvd + PvdPathTableLoc).lo
                                       * BlockSize(iso)]
  /\ UNCHANGED <<iso, ld, pn, gr, rd, rr, fh, mn, th>>

(* util.h:345: offset < end && offset < iso->size.                         *)
PathTableLoopCond(im, c) ==
  /\ ~c.far
  /\ c.rel < U32Index(LE32(im, im.pvd + PvdPathTableSize))
  /\ c.start + c.rel < im.size

(* util.h:346-348: one entry is counted and stepped over.                  *)
Statfs_Entry ==
  /\ cb.pc = "loop" /\ cb.op = "statfs"
  /\ PathTableLoopCond(iso, cb)
  /\ cb' = [cb EXCEPT !.count = @ + 1,
                      !.last = cb.start + cb.rel,
                      !.oob = @ \/ cb.start + cb.rel >= iso.size,
                      !.rel = @ + 8 + Byte(iso, cb.start + cb.rel)
                                + (Byte(iso, cb.start + cb.rel) % 2)]
  /\ UNCHANGED <<iso, ld, pn, gr, rd, rr, fh, mn, th>>

(* util.h:350 and isofs.c:282-294.                                         *)
Statfs_Return ==
  /\ cb.pc = "loop" /\ cb.op = "statfs"
  /\ ~PathTableLoopCond(iso, cb)
  /\ cb' = [cb EXCEPT !.pc = "done",
                      !.stat = [set |-> TRUE, f_bsize |-> BlockSize(iso),
                                f_frsize |-> BlockSize(iso),
                                f_blocks |-> LE32(iso, iso.pvd + PvdVolumeSpaceSize),
                                f_files |-> cb.count,
                                f_bfree |-> 0, f_bavail |-> 0, f_ffree |-> 0]]
  /\ UNCHANGED <<iso, ld, pn, gr, rd, rr, fh, mn, th>>

(* A path table entry: the length of the name, the extent, the parent and  *)
(* the name, padded to an even length (iso.h:33-40).                       *)
TableEntry(name) ==
  <<Len(name), 0>> \o Enc32(RootBlock) \o <<1, 0>> \o name
    \o (IF Len(name) % 2 = 1 THEN <<0>> ELSE <<>>)

(* An image of size bytes with block size bs whose path table of pts bytes *)
(* is at block loc and holds the bytes table.                              *)
PathTableImage(bs, loc, pts, table, size) ==
  [size |-> size, pvd |-> DescStart,
   bytes |->
     Place(DescStart, <<VD_PRIMARY, 67, 68, 48, 48, 49, 1>>)
       @@ Place(DescStart + PvdLogicalBlockSize, Enc16(bs))
       @@ Place(DescStart + PvdVolumeSpaceSize, Both32(TableBlock + 1))
       @@ Place(DescStart + PvdPathTableSize, Both32U(pts))
       @@ Place(DescStart + PvdPathTableLoc, Enc32U(loc))
       @@ (IF U32Small(loc) /\ loc.hi = 0
           THEN Place(loc.lo * bs, table) ELSE <<>>)]

(* The tables: up to MaxEntries entries with names of 1 to 3 bytes.        *)
MaxEntries == 3

TableNames == {<<0>>, <<65>>, <<65, 66>>, <<65, 66, 67>>}

Tables ==
  {Concat([k \in 1..Len(q) |-> TableEntry(q[k])]) :
     q \in SeqsUpTo(TableNames, MaxEntries)}

(* The images: a table of the size recorded, of a size recorded too large  *)
(* or too small, cut by the end of the image, beyond the image, with a     *)
(* block size of 0, and a table of FileCountCap + 1 entries with empty     *)
(* names.                                                                  *)
PathTableImages ==
  {PathTableImage(WalkBlock, U32Of(TableBlock), U32Of(Len(t) + d), t,
                  (TableBlock * WalkBlock) + Len(t) + e) :
     t \in Tables, d \in {0, 1, 8}, e \in {0, 1, WalkBlock}}
  \cup {PathTableImage(WalkBlock, U32Of(TableBlock), U32Of(n), <<>>,
                       (TableBlock + 1) * WalkBlock) : n \in {0, 7, 9}}
  \cup {PathTableImage(WalkBlock, loc, U32Of(16), <<>>, (TableBlock + 1) * WalkBlock) :
          loc \in {U32Of(TableBlock + 1), [hi |-> 65535, lo |-> 65535]}}
  \cup {PathTableImage(0, U32Of(TableBlock), U32Of(16), <<>>, (TableBlock + 1) * WalkBlock)}
  \cup {PathTableImage(WalkBlock, U32Of(TableBlock), [hi |-> 65535, lo |-> 65535],
                       TableEntry(<<65>>), (TableBlock * WalkBlock) + 20)}
  \cup {PathTableImage(WalkBlock, U32Of(TableBlock), U32Of(8 * (FileCountCap + 1)), <<>>,
                       (TableBlock * WalkBlock) + (8 * (FileCountCap + 1)))}

InitStatfs ==
  /\ iso \in PathTableImages
  /\ cb = StInit
  /\ ld = Idle /\ pn = Idle /\ gr = Idle /\ rd = Idle /\ rr = Idle /\ fh = Idle
  /\ mn = Idle /\ th = Idle

NextStatfs ==
  \/ Statfs_Begin
  \/ Statfs_Entry
  \/ Statfs_Return

SpecStatfs == InitStatfs /\ [][NextStatfs]_vars

(* C21: the file count statfs reports is at most 65,536 on every image,    *)
(* and the enumeration of the path table reads only bytes inside the       *)
(* image.                                                                  *)
C21_FileCountCapped ==
  /\ cb.count <= FileCountCap
  /\ ~cb.oob

---------------------------------------------------------------------------
(*      read_rock_ridge_data on short, last and repeated fields            *)
(*      (util.h:140-185, 212-300)                                          *)
---------------------------------------------------------------------------
(* PX fields whose header gives a length below 4, the body following; NM   *)
(* fields with a second name, with "..", with two flag bits and with a     *)
(* length below 5; TF fields with two short and with one long timestamp;   *)
(* an SP field with len_skp = SkipLen; a CE whose location * B is 2^32.    *)
SkipLen == 2

PXBody == Both32(RRMode) \o Both32(1) \o Both32(0) \o Both32(0)
FieldPX3 == <<80, 88, 3, 1>> \o PXBody
FieldPX0 == <<80, 88, 0, 1>> \o PXBody
FieldNMb == <<78, 77, 6, 1, 0, 98>>
FieldNMParent == <<78, 77, 5, 1, 4>>
FieldNMBoth == <<78, 77, 6, 1, 3, 97>>
FieldNM3 == <<78, 77, 3, 1, 0, 97>>
FieldTF2 == <<84, 70, 19, 1, 3, 120, 1, 1, 0, 0, 0, 0, 121, 2, 2, 0, 0, 0, 0>>
FieldTFAccess == <<84, 70, 12, 1, 4, 122, 3, 3, 0, 0, 0, 0>>
FieldTFLong ==
  <<84, 70, 22, 1, 130, 50, 48, 50, 48, 48, 49, 48, 49, 49, 50, 48, 48, 48, 48, 48,
    48, 0>>
FieldSPSkip == <<83, 80, 7, 1, 190, 239, SkipLen>>
FieldCEAt(loc, off, len) == <<67, 69, 28, 1>> \o Both32U(loc) \o Both32(off) \o Both32(len)
FieldCEWrap == FieldCEAt([hi |-> 65536 \div RRBlock, lo |-> 0],
                         (AreaBlock * RRBlock) + AreaPX, 44)

SuspFieldSet ==
  FieldSet \cup {FieldPX3, FieldPX0, FieldNMb, FieldNMParent, FieldNMBoth, FieldNM3,
                 FieldTF2, FieldTFAccess, FieldTFLong, FieldSPSkip, FieldCEWrap}

SuspSystemUseSet == {Concat(q) : q \in SeqsUpTo(SuspFieldSet, MaxFields)}

(* The image of RRImage with the root directory at the start of block      *)
(* AreaBlock: its first record, ".", carries the SP field sp.              *)
SuspImage(su, slack, sp) ==
  LET rec  == RecordBytes(RecFilename + 1 + Len(su), U32Of(0), U32Of(0), 0, 1,
                          <<97>>, su)
      base == RRImage(rec, Len(rec), slack)
      root == RecordBytes(RecFilename + 1 + Len(sp), U32Of(AreaBlock), U32Of(RRBlock),
                          FILE_DIRECTORY, 1, <<0>>, sp)
  IN  [base EXCEPT !.bytes =
         Place(DescStart + PvdRootRecord,
               RecordBytes(RecFilename + 1, U32Of(AreaBlock), U32Of(RRBlock),
                           FILE_DIRECTORY, 1, <<0>>, <<>>))
           @@ Place(AreaBlock * RRBlock, root) @@ @]

SuspImages ==
  {SuspImage(su, slack, sp) :
     su \in SuspSystemUseSet, slack \in {0, RRBlock}, sp \in {FieldSP, FieldSPSkip}}

InitSusp ==
  /\ iso \in SuspImages
  /\ rr = RRStart(RRRecAt)
  /\ ld = Idle /\ pn = Idle /\ gr = Idle /\ rd = Idle /\ fh = Idle
  /\ cb = Idle /\ mn = Idle /\ th = Idle

NextSusp ==
  \/ RR_Entry
  \/ RR_EndOfArea
  \/ RR_Invalid
  \/ RR_SP
  \/ RR_CE
  \/ RR_PX
  \/ RR_NM
  \/ RR_TF
  \/ RR_Ignored
  \/ RR_Again

SpecSusp == InitSusp /\ [][NextSusp]_vars

(* The length byte of the field at a loop head the call has passed, and    *)
(* what was left of the buffer there.                                      *)
PassedLength(im, c) == Byte(im, c[1] + c[2] + 2)
PassedLeft(c)       == SizeTMinus(c[3], c[2])

(* C22: every SUSP field read_rock_ridge_data accepts and acts on has      *)
(* 4 <= header.length <= buffer length - offset where it is read; a header *)
(* of length 0 to 3 is refused and its payload is not interpreted.         *)
C22_AcceptedFieldLength ==
  \A c \in rr.seen :
    /\ PassedLength(iso, c) >= SuspHeaderLen
    /\ ~SizeTLess(PassedLeft(c), PassedLength(iso, c))

---------------------------------------------------------------------------
(*      isofs_readdir and records of length 0                              *)
---------------------------------------------------------------------------
(* record->length of the record the walk of isofs_readdir stands at        *)
(* (iso.h:65, isofs.c:447, 462, 465).                                      *)
RdRecordLength == Byte(iso, rd.rec)

(* C23: isofs_readdir never passes a name to filler for a record whose     *)
(* length byte is 0: not at the first position of the extent, not after an *)
(* advance, not at the start of a sector reached by a skip; the names it   *)
(* yields are those of the records of non-zero length.                     *)
C23_NoNameForZeroLength ==
  (rd.pc = "named" /\ rd.rec < iso.size) => RdRecordLength # 0

(* The continuation area a CE field at image index d names, in exact       *)
(* arithmetic: whether image[location*B + offset .. + length] lies inside  *)
(* the image, and where it starts (iso.h:224-231, util.h:233).             *)
CEInside(im, d) ==
  LET loc == LE32(im, d + 4)
      off == LE32(im, d + 12)
      len == LE32(im, d + 20)
  IN  /\ U32Small(off) /\ U32Index(off) <= im.size
      /\ U32Small(len) /\ U32Index(len) <= im.size - U32Index(off)
      /\ \/ BlockSize(im) = 0
         \/ /\ U32Small(loc)
            /\ U32Index(loc)
                 <= (im.size - U32Index(off) - U32Index(len)) \div BlockSize(im)

CEStart(im, d) ==
  (U32Index(LE32(im, d + 4)) * BlockSize(im)) + U32Index(LE32(im, d + 12))

(* C24: at a CE field, parsing continues at offset 0 of                    *)
(* image[CE.location*B + CE.offset .. + CE.length] when that whole range   *)
(* lies inside the image; otherwise read_rock_ridge_data returns with the  *)
(* attributes gathered so far and reads no byte of the range.              *)
C24_ContinuationInsideImage ==
  RRKind(iso, rr) = "CE" =>
    LET d == RRField(rr)
        t == RRStep(iso, rr)
    IN  IF CEInside(iso, d)
          THEN /\ t.pc = "loop"
               /\ t.data = CEStart(iso, d)
               /\ t.offset = 0
               /\ t.length = SizeT(U32Index(LE32(iso, d + 20)))
          ELSE /\ t.pc = "done"
               /\ t.flags = rr.flags
               /\ t.mode = rr.mode
               /\ t.filename = rr.filename

(* The alternate name an NM field at image index d stands for: "." with    *)
(* the CURRENT bit, ".." with the PARENT bit, else the header.length - 5   *)
(* bytes after its flags byte (iso.h:201-203, 283-286).                    *)
NMName(im, d) ==
  LET len == Byte(im, d + 2)
      fl  == Byte(im, d + 4)
  IN  IF HasBit(fl, SUSP_RR_CURRENT) THEN <<46>>
      ELSE IF HasBit(fl, SUSP_RR_PARENT) THEN <<46, 46>>
      ELSE [k \in 1..(len - SuspLenNM) |-> Byte(im, d + SuspLenNM + k - 1)]

(* C25: an NM field sets the alternate filename by itself: "." if its      *)
(* CURRENT flag is set, ".." if its PARENT flag is set, otherwise exactly  *)
(* its header.length - 5 payload bytes; the number of bytes copied is in   *)
(* 0..250 and nothing is written past rr->filename.                        *)
C25_AlternateName ==
  (RRKind(iso, rr) = "NM" /\ RRField(rr) + 4 < iso.size) =>
    LET t == RRStep(iso, rr)
    IN  /\ t.fault # "smash"
        /\ t.pc # "fault" =>
             /\ "FILENAME" \in t.flags
             /\ t.filename = NMName(iso, RRField(rr))
             /\ Len(t.filename) <= LongName

(* The timestamps a TF field at image index d carries for the flag bit     *)
(* weight: how many recorded timestamps precede it, and whether the field  *)
(* is long enough to hold the creation, modification and access stamps its *)
(* flags announce (iso.h:207-214, 288-291).                                *)
TfSize(fl) == IF HasBit(fl, SUSP_TF_LONG_FORM) THEN DecDatetimeLen ELSE DatetimeLen
TfBits(fl, below) ==
  Cardinality({w \in {SUSP_TF_CREATION, SUSP_TF_MODIFICATION, SUSP_TF_ACCESS} :
                 w < below /\ HasBit(fl, w)})
TfSlot(im, d, weight) ==
  LET fl == Byte(im, d + 4)
  IN  TfStamp(im, d + SuspLenTF + (TfBits(fl, weight) * TfSize(fl)),
              HasBit(fl, SUSP_TF_LONG_FORM))
TfWellFormed(im, d) ==
  LET fl == Byte(im, d + 4)
  IN  Byte(im, d + 2) >= SuspLenTF + (TfBits(fl, SUSP_TF_LONG_FORM) * TfSize(fl))

(* C26: a TF field surfaces the creation, modification and access time     *)
(* exactly when the flag bit is set, each from the slot counted by the set *)
(* bits below it; this holds also when the field's last timestamp ends     *)
(* exactly at the end of the buffer.                                       *)
C26_TimestampsSurfaced ==
  (RRKind(iso, rr) = "TF" /\ TfWellFormed(iso, RRField(rr))) =>
    LET t  == RRStep(iso, rr)
        d  == RRField(rr)
        fl == Byte(iso, d + 4)
    IN  /\ t.pc # "fault"
        /\ ("CREATION" \in t.flags) = (HasBit(fl, SUSP_TF_CREATION) \/ "CREATION" \in rr.flags)
        /\ ("MODIFICATION" \in t.flags)
             = (HasBit(fl, SUSP_TF_MODIFICATION) \/ "MODIFICATION" \in rr.flags)
        /\ ("ACCESS" \in t.flags) = (HasBit(fl, SUSP_TF_ACCESS) \/ "ACCESS" \in rr.flags)
        /\ HasBit(fl, SUSP_TF_CREATION) => t.creation = TfSlot(iso, d, SUSP_TF_CREATION)
        /\ HasBit(fl, SUSP_TF_MODIFICATION)
             => t.modification = TfSlot(iso, d, SUSP_TF_MODIFICATION)
        /\ HasBit(fl, SUSP_TF_ACCESS) => t.access = TfSlot(iso, d, SUSP_TF_ACCESS)

(* SP.len_skp of the volume: the byte after BE EF in the SP field that     *)
(* heads the system-use area of the first record of the root directory     *)
(* (iso.h:216-219, util.h:222-223, 231).                                   *)
VolumeLenSkp(im) ==
  LET dot == U32Index(StartPos(im, RootRecord(im)))
      fl  == Byte(im, dot + RecFilenameLength)
  IN  Byte(im, dot + RecFilename + fl + (1 - (fl % 2)) + 6)

(* C27: with len_skp established by the SP field of the root record,       *)
(* read_rock_ridge_data stands len_skp bytes into the system-use area of   *)
(* every record of the volume when it reads the first SUSP field.          *)
C27_SkipsLenSkp ==
  (rr.pc = "loop" /\ rr.seen = {}) => rr.offset = VolumeLenSkp(iso)

---------------------------------------------------------------------------
(*      get_record_filename step by step  (util.h:310-331)                 *)
---------------------------------------------------------------------------
(* sizeof filename (util.h:310).                                           *)
FilenameBuf == 256

(* The state of one get_record_filename call: what read_rock_ridge_data    *)
(* gave (st, has, alt), the string in filename[], top the highest index of *)
(* filename[] written, and before: a write to filename[-1].                *)
FnInit(rec) ==
  [pc |-> "entry", op |-> "filename", rec |-> rec, has |-> FALSE, alt |-> <<>>,
   filename |-> <<>>, top |-> 0, before |-> FALSE, fault |-> ""]

FnRockRidge(s, r) ==
  IF r.pc # "done" THEN [s EXCEPT !.pc = "fault", !.fault = r.pc]
  ELSE [s EXCEPT !.pc = "parsed", !.has = "FILENAME" \in r.flags, !.alt = r.filename]

(* util.h:312-313.                                                         *)
Filename_RockRidge ==
  /\ cb.pc = "entry"
  /\ cb' = FnRockRidge(cb, ReadRockRidgeData(iso, cb.rec))
  /\ UNCHANGED <<iso, ld, pn, gr, rd, rr, fh, mn, th>>

(* util.h:314-315: strcpy(filename, rr.filename).                          *)
Filename_Alternate ==
  /\ cb.pc = "parsed"
  /\ cb.has
  /\ cb' = [cb EXCEPT !.pc = "done", !.filename = cb.alt, !.top = Len(cb.alt)]
  /\ UNCHANGED <<iso, ld, pn, gr, rd, rr, fh, mn, th>>

(* util.h:316-317.                                                         *)
Filename_Current ==
  /\ cb.pc = "parsed"
  /\ ~cb.has
  /\ Byte(iso, cb.rec + RecFilename) = 0
  /\ cb' = [cb EXCEPT !.pc = "done", !.filename = <<Period>>, !.top = 1]
  /\ UNCHANGED <<iso, ld, pn, gr, rd, rr, fh, mn, th>>

(* util.h:318-319.                                                         *)
Filename_Parent ==
  /\ cb.pc = "parsed"
  /\ ~cb.has
  /\ Byte(iso, cb.rec + RecFilename) = 1
  /\ cb' = [cb EXCEPT !.pc = "done", !.filename = <<Period, Period>>, !.top = 2]
  /\ UNCHANGED <<iso, ld, pn, gr, rd, rr, fh, mn, th>>

(* util.h:320-323: strncpy of filename_length bytes and the terminator.    *)
Filename_Copy ==
  /\ cb.pc = "parsed"
  /\ ~cb.has
  /\ Byte(iso, cb.rec + RecFilename) \notin {0, 1}
  /\ cb' = [cb EXCEPT !.pc = "copied",
                      !.filename = Strncpy(iso, cb.rec + RecFilename,
                                           Byte(iso, cb.rec + RecFilenameLength)),
                      !.top = Byte(iso, cb.rec + RecFilenameLength)]
  /\ UNCHANGED <<iso, ld, pn, gr, rd, rr, fh, mn, th>>

(* util.h:325-326.                                                         *)
Filename_Version ==
  /\ cb.pc = "copied"
  /\ cb' = [cb EXCEPT !.pc = "cut", !.filename = StripVersion(@)]
  /\ UNCHANGED <<iso, ld, pn, gr, rd, rr, fh, mn, th>>

(* util.h:328-329 with length > 0.                                         *)
Filename_Period ==
  /\ cb.pc = "cut"
  /\ cb.filename # <<>>
  /\ cb' = [cb EXCEPT !.pc = "done", !.filename = StripPeriod(@)]
  /\ UNCHANGED <<iso, ld, pn, gr, rd, rr, fh, mn, th>>

(* util.h:328-329 with length = 0: filename[length-1] is the byte before   *)
(* the array; whether it is '.' and is overwritten is not determined.      *)
Filename_PeriodBefore ==
  /\ cb.pc = "cut"
  /\ cb.filename = <<>>
  /\ \E dot \in BOOLEAN : cb' = [cb EXCEPT !.pc = "done", !.before = dot]
  /\ UNCHANGED <<iso, ld, pn, gr, rd, rr, fh, mn, th>>

MaxRecName == 3
LongestName == 255

NameBytes == {65, Period, Semicolon, 49}
FnNames ==
  SeqsUpTo(NameBytes, MaxRecName) \cup {<<0>>, <<1>>, [k \in 1..LongestName |-> 65]}

FnSystemUses == {<<>>, FieldNM, FieldNMCurrent, FieldNM4}

FnImages ==
  {RRImage(RecordBytes(Min(LongestName, RecFilename + Len(n) + 1 + Len(su)),
                       U32Of(0), U32Of(0), 0, Len(n), n, su),
           0, RRBlock) :
     n \in FnNames, su \in FnSystemUses}

InitFilename ==
  /\ iso \in FnImages
  /\ cb = FnInit(RRRecAt)
  /\ ld = Idle /\ pn = Idle /\ gr = Idle /\ rd = Idle /\ rr = Idle /\ fh = Idle
  /\ mn = Idle /\ th = Idle

NextFilename ==
  \/ Filename_RockRidge
  \/ Filename_Alternate
  \/ Filename_Current
  \/ Filename_Parent
  \/ Filename_Copy
  \/ Filename_Version
  \/ Filename_Period
  \/ Filename_PeriodBefore

SpecFilename == InitFilename /\ [][NextFilename]_vars

(* The name the record's own filename field stands for: everything from    *)
(* the last ';' removed, then one trailing '.' removed.                    *)
PlainName(name) ==
  LET cut == StripVersion(name)
  IN  IF cut = <<>> THEN cut ELSE StripPeriod(cut)

RecName(im, rec) ==
  [k \in 1..Byte(im, rec + RecFilenameLength) |-> Byte(im, rec + RecFilename + k - 1)]

(* C28: get_record_filename returns the NM name if there is one, else "."  *)
(* for the name 0x00, ".." for 0x01, else the name without its version and *)
(* without one trailing period; for every filename_length and content it   *)
(* writes only inside filename[256] and leaves a terminated string there.  *)
C28_FilenameInsideBuffer ==
  (cb.op = "filename" /\ cb.pc = "done") =>
    /\ ~cb.before
    /\ cb.top < FilenameBuf
    /\ Len(cb.filename) <= cb.top
    /\ cb.filename =
         IF cb.has THEN cb.alt
         ELSE IF Byte(iso, cb.rec + RecFilename) = 0 THEN <<Period>>
         ELSE IF Byte(iso, cb.rec + RecFilename) = 1 THEN <<Period, Period>>
         ELSE PlainName(RecName(iso, cb.rec))

(* C29: the extent check of get_record rejects every directory record      *)
(* whose extent_location*B + extent_length, in exact arithmetic, exceeds   *)
(* the image size: no 32-bit wrap lets such an extent pass.                *)
C29_ExtentCheckExact ==
  (gr.pc = "level" /\ gr.i < gr.count /\ ~ExtentInImage(iso, gr.dir))
    => ExtentOutOfRange(iso, gr.dir)

---------------------------------------------------------------------------
(*   The copies of load_iso (part1.c:51-94, part2.c:51-93, isofs.c:64-113) *)
---------------------------------------------------------------------------
(* The copy of isofs.c runs in ld; the copies of part1.c and part2.c run   *)
(* in cb.part1 and cb.part2, each with the locals of LdInit.               *)
Copies == {"part1", "part2"}

CopiesInit == [op |-> "copies", part1 |-> LdInit, part2 |-> LdInit]

DescType(im, off) == im.descs[DescIndex(off)].type_code

(* curr_descr->version == 1 && memcmp(curr_descr->id, CD001, 5) == 0 &&    *)
(* curr_descr->type_code == VD_PRIMARY && !iso->pvd (part1.c:73,           *)
(* part2.c:73).                                                            *)
TakesPrimary(im, l) ==
  /\ ~BadHeader(im, l.offset)
  /\ DescType(im, l.offset) = VD_PRIMARY
  /\ l.pvd = 0

(* part1.c:71: a TERMINATOR ends the scan, whatever its id and version.    *)
Part1_Terminator ==
  /\ cb.part1.pc = "loop"
  /\ LoadLoopCond(iso, cb.part1.offset)
  /\ DescType(iso, cb.part1.offset) = VD_TERMINATOR
  /\ cb' = [cb EXCEPT !.part1.pc = "scanned", !.part1.terminated = TRUE,
                      !.part1.iters = @ + 1]
  /\ UNCHANGED <<iso, ld, pn, gr, rd, rr, fh, mn, th>>

(* part1.c:73-76: the first valid PRIMARY descriptor becomes the PVD and   *)
(* the loop is left.                                                       *)
Part1_Primary ==
  /\ cb.part1.pc = "loop"
  /\ LoadLoopCond(iso, cb.part1.offset)
  /\ DescType(iso, cb.part1.offset) # VD_TERMINATOR
  /\ TakesPrimary(iso, cb.part1)
  /\ cb' = [cb EXCEPT !.part1.pc = "scanned", !.part1.pvd = cb.part1.offset,
                      !.part1.iters = @ + 1]
  /\ UNCHANGED <<iso, ld, pn, gr, rd, rr, fh, mn, th>>

(* part1.c:77: any other descriptor: offset += 0x800.                      *)
Part1_Advance ==
  /\ cb.part1.pc = "loop"
  /\ LoadLoopCond(iso, cb.part1.offset)
  /\ DescType(iso, cb.part1.offset) # VD_TERMINATOR
  /\ ~TakesPrimary(iso, cb.part1)
  /\ cb' = [cb EXCEPT !.part1.offset = @ + DescStride, !.part1.iters = @ + 1]
  /\ UNCHANGED <<iso, ld, pn, gr, rd, rr, fh, mn, th>>

(* part2.c:71: a TERMINATOR ends the scan, whatever its id and version.    *)
Part2_Terminator ==
  /\ cb.part2.pc = "loop"
  /\ LoadLoopCond(iso, cb.part2.offset)
  /\ DescType(iso, cb.part2.offset) = VD_TERMINATOR
  /\ cb' = [cb EXCEPT !.part2.pc = "scanned", !.part2.terminated = TRUE,
                      !.part2.iters = @ + 1]
  /\ UNCHANGED <<iso, ld, pn, gr, rd, rr, fh, mn, th>>

(* part2.c:73-76: the first valid PRIMARY descriptor becomes the PVD; any  *)
(* descriptor that is no TERMINATOR is stepped over.                       *)
Part2_Advance ==
  /\ cb.part2.pc = "loop"
  /\ LoadLoopCond(iso, cb.part2.offset)
  /\ DescType(iso, cb.part2.offset) # VD_TERMINATOR
  /\ cb' = [cb EXCEPT !.part2.pvd = IF TakesPrimary(iso, cb.part2)
                                      THEN cb.part2.offset ELSE @,
                      !.part2.offset = @ + DescStride, !.part2.iters = @ + 1]
  /\ UNCHANGED <<iso, ld, pn, gr, rd, rr, fh, mn, th>>

(* part1.c:69, part2.c:69: the loop ends at the end of the image.          *)
LoadCopy_EndOfImage ==
  /\ cb.op = "copies"
  /\ \E c \in Copies :
       /\ cb[c].pc = "loop"
       /\ ~LoadLoopCond(iso, cb[c].offset)
       /\ cb' = [cb EXCEPT ![c].pc = "scanned"]
  /\ UNCHANGED <<iso, ld, pn, gr, rd, rr, fh, mn, th>>

(* part1.c:84-90, part2.c:83-89: no PVD or no terminator: EINVAL.          *)
LoadCopy_Reject ==
  /\ cb.op = "copies"
  /\ \E c \in Copies :
       /\ cb[c].pc = "scanned"
       /\ (cb[c].pvd = 0 \/ ~cb[c].terminated)
       /\ cb' = [cb EXCEPT ![c].pc = "failed", ![c].errno = EINVAL, ![c].pvd = 0]
  /\ UNCHANGED <<iso, ld, pn, gr, rd, rr, fh, mn, th>>

(* part1.c:93, part2.c:92: return iso.                                     *)
LoadCopy_Return ==
  /\ cb.op = "copies"
  /\ \E c \in Copies :
       /\ cb[c].pc = "scanned"
       /\ ~(cb[c].pvd = 0 \/ ~cb[c].terminated)
       /\ cb' = [cb EXCEPT ![c].pc = "loaded"]
  /\ UNCHANGED <<iso, ld, pn, gr, rd, rr, fh, mn, th>>

(* The images whose last descriptor sector is whole.                       *)
WholeImages ==
  {im \in LoadImages : im.descs = <<>> \/ im.size = DescOffset(Len(im.descs) + 1)}

InitCopies ==
  /\ iso \in WholeImages
  /\ ld = LdInit
  /\ cb = CopiesInit
  /\ pn = Idle /\ gr = Idle /\ rd = Idle /\ rr = Idle /\ fh = Idle
  /\ mn = Idle /\ th = Idle

NextCopies ==
  \/ LoadIso_BadHeader
  \/ LoadIso_Terminator
  \/ LoadIso_Advance
  \/ LoadIso_EndOfImage
  \/ LoadIso_Reject
  \/ LoadIso_Return
  \/ Part1_Terminator
  \/ Part1_Primary
  \/ Part1_Advance
  \/ Part2_Terminator
  \/ Part2_Advance
  \/ LoadCopy_EndOfImage
  \/ LoadCopy_Reject
  \/ LoadCopy_Return

SpecCopies == InitCopies /\ [][NextCopies]_vars

LoadEnded(l) == l.pc \in {"loaded", "failed"}

(* The minimal valid image: PRIMARY at 0x8000, TERMINATOR at               *)
(* 0x8800, both with id CD001 and version 1.                               *)
MinimalImage(im) ==
  im.descs = <<[type_code |-> VD_PRIMARY, id |-> CD001, version |-> 1],
               [type_code |-> VD_TERMINATOR, id |-> CD001, version |-> 1]>>

(* A descriptor with a wrong id or version stands before the terminator.   *)
BadBeforeTerminator(im) ==
  \E k \in VisitedDescs(im) :
    /\ ~HeaderInImageOk(im, k)
    /\ \A j \in 1..k : im.descs[j].type_code # VD_TERMINATOR

(* C30: the three copies of load_iso accept the same images and record the *)
(* same primary volume descriptor; each accepts the minimal image, and     *)
(* each fails with EINVAL on an image that has a descriptor with a wrong   *)
(* id or version before the terminator.                                    *)
C30_CopiesAgree ==
  (cb.op = "copies" /\ LoadEnded(ld) /\ LoadEnded(cb.part1) /\ LoadEnded(cb.part2)) =>
    /\ cb.part1.pc = ld.pc /\ cb.part2.pc = ld.pc
    /\ cb.part1.pvd = ld.pvd /\ cb.part2.pvd = ld.pvd
    /\ MinimalImage(iso) => ld.pc = "loaded"
    /\ BadBeforeTerminator(iso) =>
         /\ ld.pc = "failed" /\ ld.errno = EINVAL
         /\ cb.part1.errno = EINVAL /\ cb.part2.errno = EINVAL

---------------------------------------------------------------------------
Spec == SpecLoad
=============================================================================
